---- MODULE Spec2Model ----
(***************************************************************************)
(* CarePredict: a Streamlit dashboard.  Every user interaction runs one    *)
(* page script from top to bottom against the per-session store            *)
(* st.session_state, which holds the uploaded table ('healthcare_data')    *)
(* and the processed table ('healthcare_data_processed').                  *)
(*                                                                         *)
(* Conventions of the model                                                *)
(*  - a column name is the sequence of its characters, so that the         *)
(*    substring tests and the normalisation of the code are computed;      *)
(*  - a number is an integer count of 1/Unit, which holds integers, the       *)
(*    quarter points of pandas' linear quantile and the eighths of the     *)
(*    1.5*IQR bounds exactly;                                              *)
(*  - a cell is a record [k, v]: k is "num", "nan", "str", "ts" or "nat";  *)
(*  - a table is [columns, dtype, rows], rows being tuples of cells;       *)
(*  - a slot of the session store is <<>> when the key is absent and <<t>> *)
(*    when it holds table t;                                               *)
(*  - plotting calls (px.*, fig.*, st.plotly_chart) only draw: they are    *)
(*    taken to return normally and are not part of the model;              *)
(*  - the frames behave as in pandas 2.x without copy-on-write: a change   *)
(*    made in place through data[col] or data.loc reaches the frame;       *)
(*  - st.rerun() and st.stop() end the run at once and are not caught by   *)
(*    `except Exception`.                                                  *)
(***************************************************************************)
EXTENDS Integers, Sequences, FiniteSets, TLC

----------------------------------------------------------------------------
(* Bounds of the model *)

\* longest numeric column drawn for the outlier computations
MaxLen == 4
\* largest value (in units) drawn for the outlier computations
MaxVal == 2
\* most rows of an uploaded CSV file in the session model
MaxRows == 4
\* most rows of a table drawn for the visualization page
MaxVizRows == 3
\* longest column name drawn for the uploads of one-column files
MaxName == 3
\* most rows of a table drawn for the missing-value treatments
MaxMissingRows == 3
\* largest age (in years) drawn for the age groups
MaxAge == 101
\* most rows of a table of patients of several ages
MaxAgeRows == 2

----------------------------------------------------------------------------
(* Generic helpers *)

\* one unit (the number 1) in the fixed-point representation of numbers
Unit == 64 * 1000

Range(s) == {s[i] : i \in DOMAIN s}

Min2(a, b) == IF a <= b THEN a ELSE b

SeqSum(s) ==
    LET RECURSIVE go(_)
        go(i) == IF i = 0 THEN 0 ELSE s[i] + go(i - 1)
    IN go(Len(s))

\* the elements of s at the positions i for which keep[i] holds
KeepWhere(s, keep) ==
    LET RECURSIVE go(_)
        go(i) == IF i = 0 THEN <<>>
                 ELSE IF keep[i] THEN Append(go(i - 1), s[i]) ELSE go(i - 1)
    IN go(Len(s))

\* x put at its place in the ascending sequence t
InsertSorted(t, x) ==
    LET k == Cardinality({j \in DOMAIN t : t[j] <= x})
    IN SubSeq(t, 1, k) \o <<x>> \o SubSeq(t, k + 1, Len(t))

\* the ascending sort of the first i elements of s (insertion sort)
RECURSIVE SortPrefix(_, _)
SortPrefix(s, i) == IF i = 0 THEN <<>> ELSE InsertSorted(SortPrefix(s, i - 1), s[i])

\* the ascending sort of a sequence of integers
SortInts(s) == SortPrefix(s, Len(s))

----------------------------------------------------------------------------
(* Text: names are character sequences *)

Upper == <<"A", "B", "C", "D", "E", "F", "G", "H", "I", "J", "K", "L", "M",
           "N", "O", "P", "Q", "R", "S", "T", "U", "V", "W", "X", "Y", "Z">>
Lower == <<"a", "b", "c", "d", "e", "f", "g", "h", "i", "j", "k", "l", "m",
           "n", "o", "p", "q", "r", "s", "t", "u", "v", "w", "x", "y", "z">>

\* str.lower() on one character
LowerChar(c) ==
    IF \E i \in DOMAIN Upper : Upper[i] = c
    THEN Lower[CHOOSE i \in DOMAIN Upper : Upper[i] = c]
    ELSE c

\* str.lower()
LowerName(n) == [i \in DOMAIN n |-> LowerChar(n[i])]

\* str.replace(old, new) for a single character old
ReplaceChar(n, old, new) == [i \in DOMAIN n |-> IF n[i] = old THEN new ELSE n[i]]

\* sub in n  (Python's substring test)
Contains(n, sub) ==
    \E i \in 0..(Len(n) - Len(sub)) :
        \A j \in 1..Len(sub) : n[i + j] = sub[j]

t_age == <<"a", "g", "e">>
t_date == <<"d", "a", "t", "e">>
t_admission == <<"a", "d", "m", "i", "s", "s", "i", "o", "n">>
t_discharge == <<"d", "i", "s", "c", "h", "a", "r", "g", "e">>

----------------------------------------------------------------------------
(* Cells and tables *)

Num(v) == [k |-> "num", v |-> v]
NaN == [k |-> "nan", v |-> 0]
Str(s) == [k |-> "str", v |-> s]
Ts(y, m, d) == [k |-> "ts", v |-> <<y, m, d>>]

\* Series.isnull() on one cell
IsNull(c) == c.k = "nan" \/ c.k = "nat"

Table(columns, dtype, rows) == [columns |-> columns, dtype |-> dtype, rows |-> rows]

\* the positions of the columns called name
ColIdx(t, name) == {j \in DOMAIN t.columns : t.columns[j] = name}

\* name in data.columns
HasCol(t, name) == ColIdx(t, name) # {}

\* the position of a column whose name is unique in the table
Col(t, name) == CHOOSE j \in DOMAIN t.columns : t.columns[j] = name

\* data[name] as the sequence of its cells
Column(t, j) == [i \in DOMAIN t.rows |-> t.rows[i][j]]

\* data[name] = cells  (an existing column is replaced in place)
SetColumn(t, j, cells, dt) ==
    [t EXCEPT !.dtype[j] = dt,
              !.rows = [i \in DOMAIN t.rows |-> [t.rows[i] EXCEPT ![j] = cells[i]]]]

\* data[name] = cells for a name: replaces the column or appends a new one
Assign(t, name, cells, dt) ==
    IF HasCol(t, name) THEN SetColumn(t, Col(t, name), cells, dt)
    ELSE [columns |-> Append(t.columns, name),
          dtype |-> Append(t.dtype, dt),
          rows |-> [i \in DOMAIN t.rows |-> Append(t.rows[i], cells[i])]]

\* data.columns has a repeated name: data[col] is then a frame, not a series
HasDuplicateNames(t) ==
    \E i, j \in DOMAIN t.columns : i < j /\ t.columns[i] = t.columns[j]

\* data.select_dtypes(include=[np.number]).columns, as positions
numerical_cols(t) == {j \in DOMAIN t.columns : t.dtype[j] \in {"int64", "float64"}}

\* data.select_dtypes(include=['object']).columns, as positions
categorical_cols(t) == {j \in DOMAIN t.columns : t.dtype[j] = "object"}

\* data.duplicated(): row i repeats an earlier row
Duplicated(t) == [i \in DOMAIN t.rows |-> \E h \in 1..(i - 1) : t.rows[h] = t.rows[i]]

CountTrue(mask) == Cardinality({i \in DOMAIN mask : mask[i]})

\* data[keep] / data[~mask]: a new frame with the selected rows
FilterRows(t, keep) == [t EXCEPT !.rows = KeepWhere(t.rows, keep)]

----------------------------------------------------------------------------
(* Quantiles and the IQR bounds *)

\* the non-missing values of a numeric column, in row order (dropna)
Values(cells) ==
    LET RECURSIVE go(_)
        go(i) == IF i = 0 THEN <<>>
                 ELSE IF cells[i].k = "num" THEN Append(go(i - 1), cells[i].v)
                 ELSE go(i - 1)
    IN go(Len(cells))

\* 4 * Series.quantile(k/4) with pandas' default linear interpolation, for a
\* column with at least one value: the value at position (k/4)*(n-1) of the
\* ascending values, interpolated between its two neighbours
QuantileOfSorted(s, k) ==
    LET pos4 == k * (Len(s) - 1)
        i == pos4 \div 4
        r == pos4 % 4
    IN IF r = 0 THEN 4 * s[i + 1]
       ELSE (4 - r) * s[i + 1] + r * s[i + 2]

Quantile4(cells, k) == QuantileOfSorted(SortInts(Values(cells)), k)

\* quantile() of a column without any value is NaN
HasValues(cells) == \E i \in DOMAIN cells : cells[i].k = "num"

\* Q1, Q3, IQR, lower_bound and upper_bound of a column.  Q1x4, Q3x4, IQRx4
\* are 4 times the quantity and lower8, upper8 are 8 times the bound, so that
\* every quantity is an integer:
\*   lower_bound = Q1 - 1.5 * IQR      upper_bound = Q3 + 1.5 * IQR
\* nan is TRUE when the column has no value: every quantity is then NaN
\* the bounds with the two signs exchanged: Q1 + 1.5 * IQR and Q3 - 1.5 * IQR
\* (the variant C8 is tested against)
BoundsWithSignsExchanged(q1, q3) ==
    [nan |-> FALSE, Q1x4 |-> q1, Q3x4 |-> q3, IQRx4 |-> q3 - q1,
     lower8 |-> 2 * q1 + 3 * (q3 - q1), upper8 |-> 2 * q3 - 3 * (q3 - q1)]

BoundsOfQuartiles(q1, q3) ==
    [nan |-> FALSE, Q1x4 |-> q1, Q3x4 |-> q3, IQRx4 |-> q3 - q1,
     lower8 |-> 2 * q1 - 3 * (q3 - q1), upper8 |-> 2 * q3 + 3 * (q3 - q1)]

IqrBounds(cells) ==
    IF ~HasValues(cells)
    THEN [nan |-> TRUE, Q1x4 |-> 0, Q3x4 |-> 0, IQRx4 |-> 0, lower8 |-> 0, upper8 |-> 0]
    ELSE BoundsOfQuartiles(Quantile4(cells, 1), Quantile4(cells, 3))

\* value <= lower_bound: a comparison that is not strict
\* (the variant C9 is tested against)
BelowOrAtLower(c, b) == c.k = "num" /\ ~b.nan /\ 8 * c.v <= b.lower8

\* value < lower_bound, value > upper_bound (a comparison with NaN is False)
BelowLower(c, b) == c.k = "num" /\ ~b.nan /\ 8 * c.v < b.lower8
AboveUpper(c, b) == c.k = "num" /\ ~b.nan /\ 8 * c.v > b.upper8

\* Outlier Treatment panel:
\*   outliers_mask = (data[col] < lower_bound) | (data[col] > upper_bound)
outliers_mask(cells, b) ==
    [i \in DOMAIN cells |-> BelowLower(cells[i], b) \/ AboveUpper(cells[i], b)]

\* Outlier Detection panel:
\*   outliers = data[(data[col] < lower_bound) | (data[col] > upper_bound)]
\* as the row labels of the selected rows
DetectedOutliers(cells, b) ==
    LET RECURSIVE go(_)
        go(i) == IF i = 0 THEN <<>>
                 ELSE IF (cells[i].k = "num" /\ ~b.nan /\ 8 * cells[i].v < b.lower8)
                         \/ (cells[i].k = "num" /\ ~b.nan /\ 8 * cells[i].v > b.upper8)
                      THEN Append(go(i - 1), i)
                      ELSE go(i - 1)
    IN go(Len(cells))

----------------------------------------------------------------------------
(* Dates: pd.to_datetime and the .dt accessors *)

Digits == <<"0", "1", "2", "3", "4", "5", "6", "7", "8", "9">>

IsDigit(c) == \E i \in DOMAIN Digits : Digits[i] = c

DigitValue(c) == (CHOOSE i \in DOMAIN Digits : Digits[i] = c) - 1

\* the number written by a sequence of digits
DigitsValue(txt) ==
    LET RECURSIVE go(_)
        go(i) == IF i = 0 THEN 0 ELSE 10 * go(i - 1) + DigitValue(txt[i])
    IN go(Len(txt))

IsLeap(y) == (y % 4 = 0 /\ y % 100 # 0) \/ y % 400 = 0

DaysInMonth(y, m) ==
    IF m = 2 THEN (IF IsLeap(y) THEN 29 ELSE 28)
    ELSE IF m \in {4, 6, 9, 11} THEN 30 ELSE 31

\* a text of the form YYYY-MM-DD that names a day of the calendar; the model's
\* files write their dates in this form, every other text is not a date
IsDateText(txt) ==
    /\ Len(txt) = 10
    /\ txt[5] = "-" /\ txt[8] = "-"
    /\ \A i \in {1, 2, 3, 4, 6, 7, 9, 10} : IsDigit(txt[i])
    /\ DigitsValue(SubSeq(txt, 6, 7)) \in 1..12
    /\ DigitsValue(SubSeq(txt, 9, 10)) \in
           1..DaysInMonth(DigitsValue(SubSeq(txt, 1, 4)), DigitsValue(SubSeq(txt, 6, 7)))

ParseDateText(txt) ==
    Ts(DigitsValue(SubSeq(txt, 1, 4)), DigitsValue(SubSeq(txt, 6, 7)),
       DigitsValue(SubSeq(txt, 9, 10)))

NaT == [k |-> "nat", v |-> 0]

\* pd.to_datetime on one cell: a missing value gives NaT, a number counts
\* nanoseconds from 1970-01-01 (the model's numbers are far below one day)
ToDatetimeCell(c) ==
    CASE c.k = "nan" -> NaT
      [] c.k = "nat" -> NaT
      [] c.k = "ts" -> c
      [] c.k = "num" -> Ts(1970, 1, 1)
      [] c.k = "str" -> ParseDateText(c.v)
      [] OTHER -> NaT

\* pd.to_datetime(column) raises: some text of the column is not a date
ToDatetimeRaises(cells) ==
    \E i \in DOMAIN cells : cells[i].k = "str" /\ ~IsDateText(cells[i].v)

to_datetime(cells) == [i \in DOMAIN cells |-> ToDatetimeCell(cells[i])]

\* days from 1970-01-01 to y-m-d in the proleptic Gregorian calendar
DaysFromCivil(y, m, d) ==
    LET yy == IF m <= 2 THEN y - 1 ELSE y
        era == yy \div 400
        yoe == yy - era * 400
        mp == IF m > 2 THEN m - 3 ELSE m + 9
        doy == (153 * mp + 2) \div 5 + d - 1
        doe == yoe * 365 + yoe \div 4 - yoe \div 100 + doy
    IN era * 146097 + doe - 719468

Ordinal(c) == DaysFromCivil(c.v[1], c.v[2], c.v[3])

\* .dt.year, .dt.month, .dt.day, .dt.dayofweek (Monday = 0), .dt.quarter; NaT gives NaN
DtYear(c) == IF c.k = "ts" THEN Num(c.v[1] * Unit) ELSE NaN
DtMonth(c) == IF c.k = "ts" THEN Num(c.v[2] * Unit) ELSE NaN
DtDay(c) == IF c.k = "ts" THEN Num(c.v[3] * Unit) ELSE NaN
DtDayOfWeek(c) == IF c.k = "ts" THEN Num(((Ordinal(c) + 3) % 7) * Unit) ELSE NaN
DtQuarter(c) == IF c.k = "ts" THEN Num((((c.v[2] - 1) \div 3) + 1) * Unit) ELSE NaN

\* (discharge - admission).dt.days
DaysBetween(a, b) ==
    IF a.k = "ts" /\ b.k = "ts" THEN Num((Ordinal(b) - Ordinal(a)) * Unit) ELSE NaN

\* the dtype of a column of numbers: int64 when every cell is a whole number
NumericDtype(cells) ==
    IF \A i \in DOMAIN cells : cells[i].k = "num" /\ cells[i].v % Unit = 0
    THEN "int64" ELSE "float64"

----------------------------------------------------------------------------
(* np.log1p *)

\* 1000 * ln(n) for n = 1..11, rounded
LnTable == <<0, 693, 1099, 1386, 1609, 1792, 1946, 2079, 2197, 2303, 2398>>

\* 1000 * ln(n) for a whole number n >= 1: the table, and above it
\* ln(n) = ln(2) + ln(n/2) for even n, ln(n) = ln(n-1) + 1/(n-1) - 1/(2(n-1)^2)
\* for odd n (an error below 0.001 per step)
RECURSIVE Ln1000(_)
Ln1000(n) ==
    IF n <= Len(LnTable) THEN LnTable[n]
    ELSE IF n % 2 = 0 THEN LnTable[2] + Ln1000(n \div 2)
    ELSE Ln1000(n - 1) + 1000 \div (n - 1) - 500 \div ((n - 1) * (n - 1))

\* np.log1p on one cell holding a whole number > 0 (the only values the
\* transform is applied to in the model)
Log1pCell(c) ==
    IF c.k = "num" THEN Num(Ln1000(1 + c.v \div Unit) * (Unit \div 1000)) ELSE c

----------------------------------------------------------------------------
(* Ordering of texts, mean, median, mode *)

\* the characters of the model in ASCII order
Ascii == <<" ", "-", "/">> \o Digits \o Upper \o <<"_">> \o Lower

CharCode(c) == CHOOSE i \in DOMAIN Ascii : Ascii[i] = c

\* a < b for two texts (Python's string comparison)
TextLess(a, b) ==
    \E i \in 1..(Min2(Len(a), Len(b)) + 1) :
        /\ \A j \in 1..(i - 1) : a[j] = b[j]
        /\ \/ (i = Len(a) + 1 /\ i <= Len(b))
           \/ (i <= Len(a) /\ i <= Len(b) /\ CharCode(a[i]) < CharCode(b[i]))

\* a sorts before b among the non-missing cells of one column
CellLess(a, b) ==
    IF a.k = "num" /\ b.k = "num" THEN a.v < b.v
    ELSE IF a.k = "str" /\ b.k = "str" THEN TextLess(a.v, b.v)
    ELSE FALSE

\* Series.mean(): the mean of the non-missing values (rounded down to 1/Unit)
Mean(cells) ==
    IF HasValues(cells)
    THEN Num(SeqSum(Values(cells)) \div Len(Values(cells)))
    ELSE NaN

\* Series.median(): the 0.5 quantile of the non-missing values
Median(cells) ==
    IF HasValues(cells) THEN Num(Quantile4(cells, 2) \div 4) ELSE NaN

Occurrences(cells, c) == Cardinality({i \in DOMAIN cells : cells[i] = c})

\* Series.mode() is empty: the column has no non-missing cell
ModeIsEmpty(cells) == \A i \in DOMAIN cells : IsNull(cells[i])

\* Series.mode()[0]: the most frequent non-missing cell, the smallest of them
\* when several are as frequent
Mode0(cells) ==
    LET present == {i \in DOMAIN cells : ~IsNull(cells[i])}
        best == {i \in present :
                    \A h \in present : Occurrences(cells, cells[h]) <= Occurrences(cells, cells[i])}
        first == CHOOSE i \in best : \A h \in best : ~CellLess(cells[h], cells[i])
    IN cells[first]

\* a fill that stops after the first missing cell
FillFirstNa(cells, value) ==
    [i \in DOMAIN cells |->
        IF IsNull(cells[i]) /\ ~IsNull(value) /\ \A h \in 1..(i - 1) : ~IsNull(cells[h])
        THEN value ELSE cells[i]]

\* Series.fillna(value): value replaces every missing cell (fillna(NaN) changes nothing)
FillNa(cells, value) ==
    [i \in DOMAIN cells |-> IF IsNull(cells[i]) /\ ~IsNull(value) THEN value ELSE cells[i]]

\* the dtype of a numeric column after some of its cells were set: an int64
\* column stays int64 while every cell is a whole number, else it is float64
DtypeOf(cells, old) ==
    IF old = "int64" /\ \A i \in DOMAIN cells : cells[i].k = "num" /\ cells[i].v % Unit = 0
    THEN "int64"
    ELSE IF old \in {"int64", "float64"} THEN "float64" ELSE old

\* Missing Values Treatment: the table after the chosen treatment of column j
\*   (pandas before copy-on-write: data[col].fillna(..., inplace=True)
\*    fills the column of data)
MissingTreatment(data, j, treatment) ==
    LET cells == Column(data, j)
        numeric == data.dtype[j] \in {"int64", "float64"}
        filled(value) == SetColumn(data, j, FillNa(cells, value), data.dtype[j])
    IN CASE treatment = "Fill with mean" /\ numeric -> filled(Mean(cells))
         [] treatment = "Fill with median" /\ numeric -> filled(Median(cells))
         [] treatment = "Fill with mode" -> filled(Mode0(cells))
         [] treatment = "Fill with 'Unknown'" ->
                SetColumn(data, j, FillNa(cells, Str(<<"U", "n", "k", "n", "o", "w", "n">>)), "object")
         [] treatment = "Drop rows" ->
                FilterRows(data, [i \in DOMAIN cells |-> ~IsNull(cells[i])])
         [] OTHER -> data

\* the treatments the selectbox of a column offers
TreatmentOptions(data, j) ==
    IF data.dtype[j] = "object"
    THEN {"Keep as is", "Fill with mode", "Fill with 'Unknown'", "Drop rows"}
    ELSE {"Keep as is", "Fill with mean", "Fill with median", "Fill with mode", "Drop rows"}

\* data.columns[data.isnull().any()], as positions
missing_cols(data) ==
    {j \in DOMAIN data.columns : \E i \in DOMAIN data.rows : IsNull(data.rows[i][j])}

\* data.drop_duplicates(keep=False): every row that occurs more than once is
\* dropped, its first occurrence included (the variant C13 is tested against)
DropEveryRepeatedRow(data) ==
    FilterRows(data, [i \in DOMAIN data.rows |->
                         \A h \in DOMAIN data.rows : h # i => data.rows[h] # data.rows[i]])

\* data.drop_duplicates(subset=[first column]): rows that agree in the first
\* column count as duplicates
DropDuplicatesOfFirstColumn(data) ==
    FilterRows(data, [i \in DOMAIN data.rows |->
                         \A h \in 1..(i - 1) : data.rows[h][1] # data.rows[i][1]])

\* data.drop_duplicates(): the first occurrence of every row, in order
drop_duplicates(data) ==
    FilterRows(data, [i \in DOMAIN data.rows |-> ~Duplicated(data)[i]])

----------------------------------------------------------------------------
(* Outlier treatment *)

\* Remove outliers:  data = data[~outliers_mask]
\* data[(data[col] >= lower_bound) & (data[col] <= upper_bound)]: the rows
\* within the bounds, which leaves out the rows with a missing value as well
RemoveRowsNotWithin(data, j, b) ==
    FilterRows(data, [i \in DOMAIN data.rows |->
                         /\ data.rows[i][j].k = "num"
                         /\ ~BelowLower(data.rows[i][j], b)
                         /\ ~AboveUpper(data.rows[i][j], b)])

RemoveOutliers(data, j, b) ==
    LET mask == outliers_mask(Column(data, j), b)
    IN FilterRows(data, [i \in DOMAIN mask |-> ~mask[i]])

\* a cap of the low values at Q1 instead of the lower bound
\* (the variant C11 is tested against)
CapBelowAtQ1(cells, b) ==
    [i \in DOMAIN cells |-> IF BelowLower(cells[i], b) THEN Num(b.Q1x4 \div 4) ELSE cells[i]]

\* Cap outliers (Winsorization):
\*   data.loc[data[col] < lower_bound, col] = lower_bound
\*   data.loc[data[col] > upper_bound, col] = upper_bound
CapBelow(cells, b) ==
    [i \in DOMAIN cells |-> IF BelowLower(cells[i], b) THEN Num(b.lower8 \div 8) ELSE cells[i]]

\* a cap at Q3 instead of the upper bound (the variant C10 is tested against)
CapAboveAtQ3(cells, b) ==
    [i \in DOMAIN cells |-> IF AboveUpper(cells[i], b) THEN Num(b.Q3x4 \div 4) ELSE cells[i]]

\* a cap that leaves the values above the upper bound as they are
CapNothingAbove(cells, b) == [i \in DOMAIN cells |-> cells[i]]

CapAbove(cells, b) ==
    [i \in DOMAIN cells |-> IF AboveUpper(cells[i], b) THEN Num(b.upper8 \div 8) ELSE cells[i]]

\* data[col] = cells for a numeric column whose cells were set one by one
SetNumbers(data, j, cells) == SetColumn(data, j, cells, DtypeOf(cells, data.dtype[j]))

\* a cap at the quartiles: every value below Q1 becomes Q1 and every value
\* above Q3 becomes Q3 (the variant C12 is tested against)
CapAtQuartiles(data, j, b) ==
    SetNumbers(data, j,
        [i \in DOMAIN data.rows |->
            IF data.rows[i][j].k # "num" \/ b.nan THEN data.rows[i][j]
            ELSE IF 4 * data.rows[i][j].v < b.Q1x4 THEN Num(b.Q1x4 \div 4)
            ELSE IF 4 * data.rows[i][j].v > b.Q3x4 THEN Num(b.Q3x4 \div 4)
            ELSE data.rows[i][j]])

CapOutliers(data, j, b) == SetNumbers(data, j, CapAbove(CapBelow(Column(data, j), b), b))

\* (data[col] >= 0).all(): a test that lets zeros through
\* (the variant C7 is tested against)
AllNonNegative(cells) == \A i \in DOMAIN cells : cells[i].k = "num" /\ cells[i].v >= 0

\* (data[col] > 0).all()
AllPositive(cells) == \A i \in DOMAIN cells : cells[i].k = "num" /\ cells[i].v > 0

\* Transform with log:  data[col] = np.log1p(data[col])
LogTransform(data, j) ==
    LET c0 == Column(data, j)
    IN SetColumn(data, j, [i \in DOMAIN c0 |-> Log1pCell(c0[i])], "float64")

OutlierMethods == {"Keep as is", "Remove outliers", "Cap outliers (Winsorization)", "Transform with log"}

----------------------------------------------------------------------------
(* The session store and one run of the Data Preprocessing page *)

Absent == <<>>
Present(slot) == slot # <<>>

\* st.session_state before any upload
EmptySession == [healthcare_data |-> Absent, healthcare_data_processed |-> Absent]

\* the widget values of a run: the button clicked (if any), the column(s) and
\* the method that go with it, and the columns selected in the two outlier panels
NoClick == [click |-> "none", col |-> 0, cols |-> {}, method |-> "", outlier_col |-> 0,
            outlier_treatment_col |-> 0]

\* the state of a run of the page script: the local frame `data`, the session
\* store, what was displayed, and where the run stands
\*   status: "running", or how it ended: "stopped" (st.stop), "exception" (an
\*           uncaught exception), "rerun" (st.rerun) or "done" (end of the script);
\*           "except" while an exception travels to the except clause of an action
\*   shared: `data` is the very object held in the healthcare_data slot, so
\*           that a change made to it in place changes the slot as well
\*   fired:  the clicked button was reached and its branch was run
\*   wrote:  the table the clicked action stored before st.rerun()
\*   duplicates: the duplicate_count the Duplicates tab computed
BeginRun(ss) ==
    [status |-> "running", data |-> <<>>, shared |-> FALSE, ss |-> ss, msgs |-> {},
     fired |-> FALSE, wrote |-> Absent, detect |-> <<>>, treat |-> <<>>, csv |-> <<>>,
     duplicates |-> <<>>]

\* the load without .copy(): `data` would be the stored object itself
\* (the variant C5 is tested against)
LoadFrameWithoutCopy(ss) == [table |-> ss.healthcare_data[1], shared |-> TRUE]

\* data = st.session_state['healthcare_data'].copy(): a new object
LoadFrame(ss) == [table |-> ss.healthcare_data[1], shared |-> FALSE]

\* a change of `data` in place (data[col] = ..., data.loc[...] = ...,
\* inplace=True): it reaches every holder of the same object
Mutate(r, table) ==
    [r EXCEPT !.data = table,
              !.ss.healthcare_data = IF r.shared THEN <<table>> ELSE @]

\* `data` is bound to a new frame (data = data[...], data = pd.concat(...))
Rebind(r, table) == [r EXCEPT !.data = table, !.shared = FALSE]

\* st.session_state['healthcare_data_processed'] = data
StoreProcessed(r) == [r EXCEPT !.ss.healthcare_data_processed = <<r.data>>]

\* the end of an action without the st.rerun(): the script would go on
StoreAndContinue(r, msg) ==
    [StoreProcessed(r) EXCEPT !.wrote = <<r.data>>, !.msgs = r.msgs \cup msg, !.fired = TRUE]

\* the end of a successful action:
\*   st.success(msg); st.session_state['healthcare_data_processed'] = data; st.rerun()
StoreAndRerun(r, msg) ==
    [StoreProcessed(r) EXCEPT !.wrote = <<r.data>>, !.msgs = r.msgs \cup msg,
                              !.fired = TRUE, !.status = "rerun"]

\* the start of the page with a guard that stores an empty processed table
\* before it stops
StageLoadWritingAtGuard(r) ==
    IF ~Present(r.ss.healthcare_data)
    THEN [r EXCEPT !.status = "stopped", !.msgs = {"Please upload the healthcare dataset"},
                   !.ss.healthcare_data_processed = <<Table(<<>>, <<>>, <<>>)>>]
    ELSE LET f == LoadFrame(r.ss)
             r1 == [r EXCEPT !.data = f.table, !.shared = f.shared]
         IN IF HasDuplicateNames(f.table) THEN [r1 EXCEPT !.status = "exception"] ELSE r1

\* lines 24-62: the upload guard, the working copy, the quality summary
\* (data[col].dropna().head(3).tolist() fails when a column name is repeated)
StageLoad(r) ==
    IF ~Present(r.ss.healthcare_data)
    THEN [r EXCEPT !.status = "stopped", !.msgs = {"Please upload the healthcare dataset"}]
    ELSE LET f == LoadFrame(r.ss)
             r1 == [r EXCEPT !.data = f.table, !.shared = f.shared]
         IN IF HasDuplicateNames(f.table) THEN [r1 EXCEPT !.status = "exception"] ELSE r1

\* lines 129-155: the Outlier Detection panel
\* what the Outlier Detection panel shows for a column: the bounds and the
\* rows it lists as outliers
DetectionPanel(j, cells, b) ==
    [col |-> j, bounds |-> b, outliers |-> DetectedOutliers(cells, b)]

StageOutlierDetection(r, w) ==
    IF r.status # "running" \/ w.outlier_col \notin numerical_cols(r.data) THEN r
    ELSE [r EXCEPT !.detect = <<DetectionPanel(w.outlier_col, Column(r.data, w.outlier_col),
                                               IqrBounds(Column(r.data, w.outlier_col)))>>]

\* lines 200-250: Missing Values Treatment
StageMissingValues(r, w) ==
    IF r.status # "running" THEN r
    ELSE IF w.click = "apply_missing" /\ w.col \in missing_cols(r.data)
                /\ w.method \in TreatmentOptions(r.data, w.col)
    THEN IF w.method = "Fill with mode" /\ ModeIsEmpty(Column(r.data, w.col))
         THEN [r EXCEPT !.status = "exception", !.fired = TRUE]
         ELSE StoreAndRerun(Mutate(r, MissingTreatment(r.data, w.col, w.method)),
                            IF w.method = "Keep as is" THEN {} ELSE {"missing values treated"})
    ELSE IF missing_cols(r.data) = {}
    THEN [r EXCEPT !.msgs = r.msgs \cup {"No missing values to treat"}]
    ELSE r

\* lines 252-266: Duplicate Records Treatment
\* lines 257-266 with duplicate_count = n
DuplicatesFound(r, w, n) ==
    IF n > 0
    THEN IF w.click = "remove_duplicates"
         THEN StoreAndRerun(Rebind(r, drop_duplicates(r.data)),
                            {"Found duplicate records", "Removed duplicate records"})
         ELSE [r EXCEPT !.msgs = r.msgs \cup {"Found duplicate records"}]
    ELSE [r EXCEPT !.msgs = r.msgs \cup {"No duplicate records found"}]

StageDuplicates(r, w) ==
    IF r.status # "running" THEN r
    ELSE DuplicatesFound([r EXCEPT !.duplicates = <<CountTrue(Duplicated(r.data))>>], w,
                         CountTrue(Duplicated(r.data)))

\* date_columns = [col for col in data.columns if 'date' in col.lower()]
date_columns(data) ==
    {j \in DOMAIN data.columns : Contains(LowerName(data.columns[j]), t_date)}

\* lines 268-293: Data Type Conversions
StageDataTypes(r, w) ==
    IF r.status # "running" THEN r
    ELSE IF w.click = "convert_datetime" /\ w.col \in date_columns(r.data)
                /\ r.data.dtype[w.col] # "datetime64[ns]"
    THEN IF ToDatetimeRaises(Column(r.data, w.col))
         THEN [r EXCEPT !.msgs = r.msgs \cup {"Error converting"}, !.fired = TRUE]
         ELSE StoreAndRerun(
                  Mutate(r, SetColumn(r.data, w.col, to_datetime(Column(r.data, w.col)),
                                      "datetime64[ns]")),
                  {"Converted to datetime"})
    ELSE r

\* lines 295-342: Outlier Treatment
\* lines 305-312: what the Outlier Treatment panel computes for a column
TreatmentPanelOf(j, b, mask) ==
    [col |-> j, bounds |-> b, mask |-> mask, outlier_count |-> CountTrue(mask)]

TreatmentPanel(j, cells, b) == TreatmentPanelOf(j, b, outliers_mask(cells, b))

\* lines 314-342: the treatment chosen for the column of panel p
OutlierTreatment(r1, w, p) ==
    IF p.outlier_count > 0
    THEN IF w.click = "apply_outlier_treatment" /\ w.method \in OutlierMethods
         THEN CASE w.method = "Remove outliers" ->
                       StoreAndRerun(Rebind(r1, RemoveOutliers(r1.data, p.col, p.bounds)),
                                     {"Removed outliers"})
                [] w.method = "Cap outliers (Winsorization)" ->
                       StoreAndRerun(Mutate(r1, CapOutliers(r1.data, p.col, p.bounds)),
                                     {"Capped outliers"})
                [] w.method = "Transform with log" ->
                       IF AllPositive(Column(r1.data, p.col))
                       THEN StoreAndRerun(Mutate(r1, LogTransform(r1.data, p.col)),
                                          {"Applied log transformation"})
                       ELSE StoreAndRerun(r1,
                                {"Cannot apply log transformation to non-positive values"})
                [] OTHER -> StoreAndRerun(r1, {})
         ELSE [r1 EXCEPT !.msgs = r1.msgs \cup {"Found outliers"}]
    ELSE [r1 EXCEPT !.msgs = r1.msgs \cup {"No outliers found"}]

\* the run with the panel on display
ShowTreatmentPanel(r, w, p) == OutlierTreatment([r EXCEPT !.treat = <<p>>], w, p)

StageOutlierTreatment(r, w) ==
    IF r.status # "running" \/ w.outlier_treatment_col \notin numerical_cols(r.data) THEN r
    ELSE ShowTreatmentPanel(r, w,
             TreatmentPanel(w.outlier_treatment_col, Column(r.data, w.outlier_treatment_col),
                            IqrBounds(Column(r.data, w.outlier_treatment_col))))

----------------------------------------------------------------------------
(* Feature engineering *)

\* date_cols = [col for col in data.columns
\*              if data[col].dtype == 'datetime64[ns]' or 'date' in col.lower()]
date_cols(data) ==
    {j \in DOMAIN data.columns :
        data.dtype[j] = "datetime64[ns]" \/ Contains(LowerName(data.columns[j]), t_date)}

\* a derived column of numbers: data[name] = cells
AssignNumbers(t, name, cells) == Assign(t, name, cells, NumericDtype(cells))

\* lines 364-369: the five features of a datetime column
ExtractDateFeatures(data, j) ==
    LET c == Column(data, j)
        name == data.columns[j]
        f(op(_)) == [i \in DOMAIN c |-> op(c[i])]
        d1 == AssignNumbers(data, name \o <<"_", "y", "e", "a", "r">>, f(DtYear))
        d2 == AssignNumbers(d1, name \o <<"_", "m", "o", "n", "t", "h">>, f(DtMonth))
        d3 == AssignNumbers(d2, name \o <<"_", "d", "a", "y">>, f(DtDay))
        d4 == AssignNumbers(d3, name \o <<"_", "w", "e", "e", "k", "d", "a", "y">>, f(DtDayOfWeek))
    IN AssignNumbers(d4, name \o <<"_", "q", "u", "a", "r", "t", "e", "r">>, f(DtQuarter))

\* lines 349-378: Date Feature Engineering
StageDateFeatures(r, w) ==
    IF r.status # "running" THEN r
    ELSE IF w.click = "date_features" /\ w.col \in date_cols(r.data)
    THEN IF r.data.dtype[w.col] # "datetime64[ns]" /\ ToDatetimeRaises(Column(r.data, w.col))
         THEN [r EXCEPT !.msgs = r.msgs \cup {"Error extracting date features"}, !.fired = TRUE]
         ELSE LET conv == IF r.data.dtype[w.col] # "datetime64[ns]"
                          THEN SetColumn(r.data, w.col, to_datetime(Column(r.data, w.col)),
                                         "datetime64[ns]")
                          ELSE r.data
              IN StoreAndRerun(Mutate(r, ExtractDateFeatures(conv, w.col)),
                               {"Extracted date features"})
    ELSE IF date_cols(r.data) = {}
    THEN [r EXCEPT !.msgs = r.msgs \cup {"No date columns found for feature extraction"}]
    ELSE r

\* the admission and the discharge date column: the last column whose lowered
\* name holds 'admission' and 'date', the last one that is not such a column
\* and holds 'discharge' and 'date' (0: none)
admission_col(data) ==
    LET m == {j \in DOMAIN data.columns :
                 /\ Contains(LowerName(data.columns[j]), t_admission)
                 /\ Contains(LowerName(data.columns[j]), t_date)}
    IN IF m = {} THEN 0 ELSE CHOOSE j \in m : \A h \in m : h <= j

discharge_col(data) ==
    LET m == {j \in DOMAIN data.columns :
                 /\ ~(/\ Contains(LowerName(data.columns[j]), t_admission)
                      /\ Contains(LowerName(data.columns[j]), t_date))
                 /\ Contains(LowerName(data.columns[j]), t_discharge)
                 /\ Contains(LowerName(data.columns[j]), t_date)}
    IN IF m = {} THEN 0 ELSE CHOOSE j \in m : \A h \in m : h <= j

\* lines 459-474: Calculate Length of Stay.  The two conversions are made one
\* after the other on `data`; when the second raises the first has been made
\* data[col] = pd.to_datetime(data[col]), or the exception it raises: the
\* run goes to the except clause of the action, which shows msg
ConvertColumn(r, j, msg) ==
    IF r.status # "running" THEN r
    ELSE IF ToDatetimeRaises(Column(r.data, j))
    THEN [r EXCEPT !.status = "except", !.msgs = r.msgs \cup msg, !.fired = TRUE]
    ELSE Mutate(r, SetColumn(r.data, j, to_datetime(Column(r.data, j)), "datetime64[ns]"))

\* data['length_of_stay'] = (data[discharge_col] - data[admission_col]).dt.days
\* and the end of the action; an exception caught above resumes the script
\* after the except clause
LengthOfStay(r, a, d) ==
    IF r.status = "except" THEN [r EXCEPT !.status = "running"]
    ELSE StoreAndRerun(
             Mutate(r, AssignNumbers(r.data,
                                     <<"l", "e", "n", "g", "t", "h", "_", "o", "f", "_", "s", "t", "a", "y">>,
                                     [i \in DOMAIN r.data.rows |->
                                         DaysBetween(r.data.rows[i][a], r.data.rows[i][d])])),
             {"Created Length of Stay feature"})

CalculateLos(r, a, d) ==
    LengthOfStay(ConvertColumn(ConvertColumn(r, a, {"Error calculating length of stay"}),
                               d, {"Error calculating length of stay"}), a, d)

StageLengthOfStay(r, w) ==
    IF r.status # "running" THEN r
    ELSE IF admission_col(r.data) # 0 /\ discharge_col(r.data) # 0 /\ w.click = "los_calc"
    THEN CalculateLos(r, admission_col(r.data), discharge_col(r.data))
    ELSE r

\* lines 479-489; a comparison with NaN is False, so a missing age is 'Elderly'
categorize_age(age) ==
    IF age.k = "num" /\ age.v < 18 * Unit THEN Str(<<"C", "h", "i", "l", "d">>)
    ELSE IF age.k = "num" /\ age.v < 35 * Unit
         THEN Str(<<"Y", "o", "u", "n", "g", " ", "A", "d", "u", "l", "t">>)
    ELSE IF age.k = "num" /\ age.v < 55 * Unit
         THEN Str(<<"M", "i", "d", "d", "l", "e", " ", "A", "g", "e">>)
    ELSE IF age.k = "num" /\ age.v < 75 * Unit THEN Str(<<"S", "e", "n", "i", "o", "r">>)
    ELSE Str(<<"E", "l", "d", "e", "r", "l", "y">>)

\* lines 476-494: Create Age Groups (age < 18 raises for a text)
StageAgeGroups(r, w) ==
    IF r.status # "running" THEN r
    ELSE IF HasCol(r.data, t_age) /\ w.click = "age_groups"
    THEN LET ages == Column(r.data, Col(r.data, t_age))
         IN IF \E i \in DOMAIN ages : ages[i].k \notin {"num", "nan"}
            THEN [r EXCEPT !.status = "exception", !.fired = TRUE]
            ELSE StoreAndRerun(
                     Mutate(r, Assign(r.data, <<"a", "g", "e", "_", "g", "r", "o", "u", "p">>,
                                      [i \in DOMAIN ages |-> categorize_age(ages[i])], "object")),
                     {"Created age group categories"})
    ELSE r

----------------------------------------------------------------------------
(* Categorical encoding *)

\* astype(str) on a cell of an object column
AsTypeStr(c) == IF c.k = "str" THEN c.v ELSE <<"n", "a", "n">>

\* the texts of a set in ascending order
RECURSIVE SortTexts(_)
SortTexts(S) ==
    IF S = {} THEN <<>>
    ELSE LET m == CHOOSE x \in S : \A y \in S : ~TextLess(y, x)
         IN <<m>> \o SortTexts(S \ {m})

\* LabelEncoder().fit_transform(data[col].astype(str)): the rank of each text
\* among the distinct texts of the column
LabelEncode(cells) ==
    LET texts == {AsTypeStr(cells[i]) : i \in DOMAIN cells}
    IN [i \in DOMAIN cells |->
           Num(Cardinality({t \in texts : TextLess(t, AsTypeStr(cells[i]))}) * Unit)]

Bool(b) == [k |-> "bool", v |-> IF b THEN 1 ELSE 0]

\* pd.concat([data, pd.get_dummies(data[col], prefix=col)], axis=1): one bool
\* column per distinct non-missing value, in ascending order of the values
\* pd.concat([t, column], axis=1): the column is added at the end, whatever its name
ConcatColumn(t, name, cells, dt) ==
    [columns |-> Append(t.columns, name),
     dtype |-> Append(t.dtype, dt),
     rows |-> [i \in DOMAIN t.rows |-> Append(t.rows[i], cells[i])]]

\* data with the dummy columns of the first n values
RECURSIVE AddDummies(_, _, _, _, _)
AddDummies(data, prefix, cells, values, n) ==
    IF n = 0 THEN data
    ELSE ConcatColumn(AddDummies(data, prefix, cells, values, n - 1),
                      prefix \o <<"_">> \o values[n],
                      [i \in DOMAIN cells |-> Bool(cells[i] = Str(values[n]))], "bool")

\* the distinct texts of a column in ascending order
DistinctTexts(cells) ==
    SortTexts({cells[i].v : i \in {h \in DOMAIN cells : cells[h].k = "str"}})

OneHotEncode(data, j) ==
    AddDummies(data, data.columns[j], Column(data, j), DistinctTexts(Column(data, j)),
               Len(DistinctTexts(Column(data, j))))

\* data[col].map(data[col].value_counts().to_dict())
FrequencyEncode(cells) ==
    [i \in DOMAIN cells |->
        IF IsNull(cells[i]) THEN NaN ELSE Num(Occurrences(cells, cells[i]) * Unit)]

EncodingMethods == {"Label Encoding", "One-Hot Encoding", "Frequency Encoding"}

\* lines 380-408: Categorical Variable Encoding
StageEncoding(r, w) ==
    IF r.status # "running" THEN r
    ELSE IF w.click = "apply_encoding" /\ w.col \in categorical_cols(r.data)
                /\ w.method \in EncodingMethods
    THEN LET cells == Column(r.data, w.col)
             name == r.data.columns[w.col]
         IN CASE w.method = "Label Encoding" ->
                     StoreAndRerun(Mutate(r, AssignNumbers(r.data,
                                              name \o <<"_", "e", "n", "c", "o", "d", "e", "d">>,
                                              LabelEncode(cells))),
                                   {"Applied label encoding"})
              [] w.method = "One-Hot Encoding" ->
                     StoreAndRerun(Rebind(r, OneHotEncode(r.data, w.col)),
                                   {"Applied one-hot encoding"})
              [] OTHER ->
                     StoreAndRerun(Mutate(r, AssignNumbers(r.data,
                                              name \o <<"_", "f", "r", "e", "q", "u", "e", "n", "c", "y">>,
                                              FrequencyEncode(cells))),
                                   {"Applied frequency encoding"})
    ELSE r

----------------------------------------------------------------------------
(* Numerical scaling.  The scaled values are rounded to thousandths. *)

\* the integer square root
RECURSIVE IsqrtBetween(_, _, _)
IsqrtBetween(n, lo, hi) ==
    IF lo >= hi THEN lo
    ELSE IF ((lo + hi + 1) \div 2) * ((lo + hi + 1) \div 2) <= n
    THEN IsqrtBetween(n, (lo + hi + 1) \div 2, hi)
    ELSE IsqrtBetween(n, lo, ((lo + hi + 1) \div 2) - 1)

Isqrt(n) == IsqrtBetween(n, 0, 46340)

Thousandth == Unit \div 1000
Tenth == Unit \div 10

SeqMin(s) == CHOOSE x \in Range(s) : \A y \in Range(s) : x <= y
SeqMax(s) == CHOOSE x \in Range(s) : \A y \in Range(s) : y <= x

\* StandardScaler: (x - mean) / std with the population std; a zero std is
\* taken as 1; NaN is ignored in the fit and kept in the result
\* n values v (in tenths) of sum S: n times their population std
StdTimesN(v, n, S) ==
    Isqrt(SeqSum([i \in DOMAIN v |-> (n * v[i] - S) * (n * v[i] - S)]) \div n)

StandardScaleBy(cells, n, S, nstd) ==
    [i \in DOMAIN cells |->
        IF cells[i].k # "num" THEN cells[i]
        ELSE IF nstd = 0 THEN Num(0)
        ELSE Num((((n * (cells[i].v \div Tenth) - S) * 1000) \div nstd) * Thousandth)]

StandardScaleOf(cells, v) ==
    StandardScaleBy(cells, Len(v), SeqSum(v), StdTimesN(v, Len(v), SeqSum(v)))

Tenths(v) == [i \in DOMAIN v |-> v[i] \div Tenth]

StandardScale(cells) ==
    IF ~HasValues(cells) THEN cells ELSE StandardScaleOf(cells, Tenths(Values(cells)))

\* MinMaxScaler: (x - min) / (max - min); a zero range is taken as 1
MinMaxScaleBy(cells, lo, range) ==
    [i \in DOMAIN cells |->
        IF cells[i].k # "num" THEN cells[i]
        ELSE IF range = 0 THEN Num(0)
        ELSE Num(((((cells[i].v - lo) \div Thousandth) * 1000) \div range) * Thousandth)]

MinMaxScale(cells) ==
    IF ~HasValues(cells) THEN cells
    ELSE MinMaxScaleBy(cells, SeqMin(Values(cells)),
                       (SeqMax(Values(cells)) - SeqMin(Values(cells))) \div Thousandth)

\* RobustScaler: (x - median) / IQR; a zero IQR is taken as 1
RobustScaleBy(cells, med4, iqr4) ==
    [i \in DOMAIN cells |->
        IF cells[i].k # "num" THEN cells[i]
        ELSE IF iqr4 = 0 THEN Num(cells[i].v - med4 \div 4)
        ELSE Num(((((4 * cells[i].v - med4) \div Thousandth) * 1000)
                     \div (iqr4 \div Thousandth)) * Thousandth)]

RobustScale(cells) ==
    IF ~HasValues(cells) THEN cells
    ELSE RobustScaleBy(cells, Quantile4(cells, 2), Quantile4(cells, 3) - Quantile4(cells, 1))

ScalingMethods == {"Standard Scaling (Z-score)", "Min-Max Scaling", "Robust Scaling"}

\* for col in selected_scale_cols: data[f'{col}_<suffix>'] = scaler.fit_transform(data[[col]])
ScaleColumns(data, cols, method) ==
    LET RECURSIVE go(_)
        go(j) ==
            IF j = 0 THEN data
            ELSE IF j \notin cols THEN go(j - 1)
            ELSE LET cells == Column(data, j)
                     name == data.columns[j]
                     done == go(j - 1)
                 IN CASE method = "Standard Scaling (Z-score)" ->
                             Assign(done, name \o <<"_", "s", "c", "a", "l", "e", "d">>,
                                    StandardScale(cells), "float64")
                      [] method = "Min-Max Scaling" ->
                             Assign(done, name \o <<"_", "m", "i", "n", "m", "a", "x">>,
                                    MinMaxScale(cells), "float64")
                      [] OTHER ->
                             Assign(done, name \o <<"_", "r", "o", "b", "u", "s", "t">>,
                                    RobustScale(cells), "float64")
    IN go(Len(data.columns))

\* lines 410-443: Numerical Variable Scaling
StageScaling(r, w) ==
    IF r.status # "running" THEN r
    ELSE IF w.click = "apply_scaling" /\ w.cols # {} /\ w.cols \subseteq numerical_cols(r.data)
                /\ w.method \in ScalingMethods
    THEN StoreAndRerun(Mutate(r, ScaleColumns(r.data, w.cols, w.method)),
                       {"Applied scaling to selected columns"})
    ELSE r

----------------------------------------------------------------------------
(* DataFrame.to_csv(index=False) *)

\* the decimal digits of a natural number
RECURSIVE NatText(_)
NatText(n) == IF n < 10 THEN <<Digits[n + 1]>> ELSE NatText(n \div 10) \o <<Digits[(n % 10) + 1]>>

IntText(n) == IF n < 0 THEN <<"-">> \o NatText(0 - n) ELSE NatText(n)

Pad2(n) == IF n < 10 THEN <<"0">> \o NatText(n) ELSE NatText(n)

\* a float as text: the whole part, a point, and the thousandths without
\* trailing zeros (at least one digit)
FloatText(v) ==
    LET a == IF v < 0 THEN 0 - v ELSE v
        whole == a \div Unit
        frac == (a % Unit) \div Thousandth
        d3 == <<Digits[(frac \div 100) + 1], Digits[((frac \div 10) % 10) + 1], Digits[(frac % 10) + 1]>>
        digits == IF frac % 100 = 0 THEN SubSeq(d3, 1, 1)
                  ELSE IF frac % 10 = 0 THEN SubSeq(d3, 1, 2) ELSE d3
    IN (IF v < 0 THEN <<"-">> ELSE <<>>) \o NatText(whole) \o <<".">> \o digits

\* one field of the CSV: a missing value is the empty text
CellText(c, dt) ==
    CASE c.k = "num" -> IF dt = "int64" THEN IntText(c.v \div Unit) ELSE FloatText(c.v)
      [] c.k = "str" -> c.v
      [] c.k = "ts" -> NatText(c.v[1]) \o <<"-">> \o Pad2(c.v[2]) \o <<"-">> \o Pad2(c.v[3])
      [] c.k = "bool" -> IF c.v = 1 THEN <<"T", "r", "u", "e">> ELSE <<"F", "a", "l", "s", "e">>
      [] OTHER -> <<>>

\* the CSV text as its header fields and the fields of each line
to_csv(t) ==
    [header |-> t.columns,
     lines |-> [i \in DOMAIN t.rows |-> [j \in DOMAIN t.columns |-> CellText(t.rows[i][j], t.dtype[j])]]]

----------------------------------------------------------------------------
(* The end of the page script and the whole run *)

\* lines 496-528: Data Validation: the summary and the export of the table
\* found in the healthcare_data_processed slot
StageValidation(r, w) ==
    IF r.status # "running" \/ ~Present(r.ss.healthcare_data_processed) THEN r
    ELSE LET processed_data == r.ss.healthcare_data_processed[1]
         IN IF w.click = "prepare_download"
            THEN [r EXCEPT !.csv = <<to_csv(processed_data)>>, !.fired = TRUE]
            ELSE r

\* lines 530-567: the quality report and
\*   st.session_state['healthcare_data_processed'] = data
StageEnd(r) ==
    IF r.status # "running" THEN r
    ELSE [StoreProcessed(r) EXCEPT !.status = "done"]

\* one run of pages/4_Data_Preprocessing.py with the widget values w
PreprocessingRun(ss, w) ==
    LET r1 == StageOutlierDetection(StageLoad(BeginRun(ss)), w)
        r2 == StageMissingValues(r1, w)
        r3 == StageDuplicates(r2, w)
        r4 == StageDataTypes(r3, w)
        r5 == StageOutlierTreatment(r4, w)
        r6 == StageDateFeatures(r5, w)
        r7 == StageEncoding(r6, w)
        r8 == StageScaling(r7, w)
        r9 == StageLengthOfStay(r8, w)
        r10 == StageAgeGroups(r9, w)
    IN StageEnd(StageValidation(r10, w))

\* a user interaction with the page: the run it triggers and, when that run
\* ends in st.rerun(), the run that follows at once with no button clicked
\* (the selections of the select boxes are kept)
Rerun(first, w) ==
    [first |-> first,
     last |-> IF first.status = "rerun"
              THEN PreprocessingRun(first.ss, [w EXCEPT !.click = "none"])
              ELSE first]

PreprocessingInteraction(ss, w) == Rerun(PreprocessingRun(ss, w), w)

----------------------------------------------------------------------------
(* The main page: file upload and workflow progress *)

\* the normalisation without the replacement of hyphens
NormalizeNameKeepingHyphens(n) == LowerName(ReplaceChar(n, " ", "_"))

\* data.columns.str.replace(' ', '_').str.replace('-', '_').str.lower()
NormalizeName(n) == LowerName(ReplaceChar(ReplaceChar(n, " ", "_"), "-", "_"))

\* column_mapping (lines 132-142): old name, new name
column_mapping == <<
    <<<<"m", "e", "d", "i", "c", "a", "l", "_", "c", "o", "n", "d", "i", "t", "i", "o", "n">>,
      <<"m", "e", "d", "i", "c", "a", "l", "_", "c", "o", "n", "d", "i", "t", "i", "o", "n">>>>,
    <<<<"t", "e", "s", "t", "_", "r", "e", "s", "u", "l", "t", "s">>,
      <<"t", "e", "s", "t", "_", "r", "e", "s", "u", "l", "t", "s">>>>,
    <<<<"b", "i", "l", "l", "i", "n", "g", "_", "a", "m", "o", "u", "n", "t">>,
      <<"b", "i", "l", "l", "i", "n", "g", "_", "a", "m", "o", "u", "n", "t">>>>,
    <<<<"i", "n", "s", "u", "r", "a", "n", "c", "e", "_", "p", "r", "o", "v", "i", "d", "e", "r">>,
      <<"i", "n", "s", "u", "r", "a", "n", "c", "e", "_", "p", "r", "o", "v", "i", "d", "e", "r">>>>,
    <<<<"b", "l", "o", "o", "d", "_", "t", "y", "p", "e">>,
      <<"b", "l", "o", "o", "d", "_", "t", "y", "p", "e">>>>,
    <<<<"d", "a", "t", "e", "_", "o", "f", "_", "a", "d", "m", "i", "s", "s", "i", "o", "n">>,
      <<"d", "a", "t", "e", "_", "o", "f", "_", "a", "d", "m", "i", "s", "s", "i", "o", "n">>>>,
    <<<<"d", "i", "s", "c", "h", "a", "r", "g", "e", "_", "d", "a", "t", "e">>,
      <<"d", "i", "s", "c", "h", "a", "r", "g", "e", "_", "d", "a", "t", "e">>>>,
    <<<<"a", "d", "m", "i", "s", "s", "i", "o", "n", "_", "t", "y", "p", "e">>,
      <<"a", "d", "m", "i", "s", "s", "i", "o", "n", "_", "t", "y", "p", "e">>>>,
    <<<<"r", "o", "o", "m", "_", "n", "u", "m", "b", "e", "r">>,
      <<"r", "o", "o", "m", "_", "n", "u", "m", "b", "e", "r">>>> >>

\* data.rename(columns={old: new})
Rename(t, old, new) ==
    [t EXCEPT !.columns = [j \in DOMAIN t.columns |-> IF t.columns[j] = old THEN new ELSE t.columns[j]]]

\* lines 144-147: for old_name, new_name in column_mapping.items(): rename if present
\* if old_name in data.columns: data = data.rename(columns={old_name: new_name})
RenameIfPresent(data, old, new) == IF HasCol(data, old) THEN Rename(data, old, new) ELSE data

\* the first n pairs of the mapping applied in turn
RECURSIVE ApplyMappingUpTo(_, _)
ApplyMappingUpTo(t, n) ==
    IF n = 0 THEN t
    ELSE RenameIfPresent(ApplyMappingUpTo(t, n - 1), column_mapping[n][1], column_mapping[n][2])

ApplyColumnMapping(t) == ApplyMappingUpTo(t, Len(column_mapping))

\* the dtype pd.read_csv infers for a column
InferDtype(cells) ==
    IF \E i \in DOMAIN cells : cells[i].k = "str" THEN "object"
    ELSE NumericDtype(cells)

\* pd.read_csv(uploaded_file) for a file that parses: the header as it is
\* written and the fields as numbers, texts or missing values
read_csv(file) ==
    LET t == [columns |-> file.header, dtype |-> file.header, rows |-> file.rows]
    IN [t EXCEPT !.dtype = [j \in DOMAIN file.header |-> InferDtype(Column(t, j))]]

\* lines 299-322: the workflow progress shown on the main page
WorkflowProgress(ss) ==
    IF ~Present(ss.healthcare_data) THEN <<>>
    ELSE LET progress_steps == <<
                 <<"Data Upload", TRUE>>,
                 <<"Problem Understanding", TRUE>>,
                 <<"Stakeholder Analysis", TRUE>>,
                 <<"KPI Definition", TRUE>>,
                 <<"Data Preprocessing", Present(ss.healthcare_data_processed)>>,
                 <<"Data Visualization", Present(ss.healthcare_data_processed)>>,
                 <<"Predictive Modeling", FALSE>> >>
             open == {i \in DOMAIN progress_steps : ~progress_steps[i][2]}
         IN <<[completed_steps |-> Cardinality({i \in DOMAIN progress_steps : progress_steps[i][2]}),
               steps |-> Len(progress_steps),
               next_step |-> IF open = {} THEN "All workflow steps completed"
                             ELSE progress_steps[CHOOSE i \in open : \A h \in open : i <= h][1]]>>

\* one run of app.py; upload is <<>> (no file in the uploader) or <<file>>.
\*   lines 122-150: read, normalise the names, map them, store the table
\*   lines 152-217: the metrics, the preview and the schema
\*                  (data[col].dropna().head(2).tolist() fails when a column
\*                  name is repeated)
\*   lines 219-224: any exception of the block shows 'Error loading data'
\* line 129: the names of the columns normalised
NormalizeColumns(data) ==
    [data EXCEPT !.columns = [j \in DOMAIN data.columns |-> NormalizeName(data.columns[j])]]

\* the end of a run of app.py that showed msgs and left the store ss
MainDone(ss, msgs) ==
    [status |-> "done", ss |-> ss, msgs |-> msgs, progress |-> WorkflowProgress(ss)]

\* lines 150-224 for the table `data` read from the file
MainLoaded(ss, data) ==
    MainDone([ss EXCEPT !.healthcare_data = <<data>>],
             IF HasDuplicateNames(data)
             THEN {"Dataset loaded successfully", "Error loading data"}
             ELSE {"Dataset loaded successfully"})

MainRun(ss, upload) ==
    IF upload = <<>> THEN MainDone(ss, {"Please upload the healthcare dataset CSV file"})
    ELSE IF ~upload[1].readable THEN MainDone(ss, {"Error loading data"})
    ELSE MainLoaded(ss, ApplyColumnMapping(NormalizeColumns(read_csv(upload[1]))))

----------------------------------------------------------------------------
(* One run of the Data Visualization page *)

t_gender == <<"g", "e", "n", "d", "e", "r">>

\* the names the page tries for a field, in the order it tries them
condition_names == <<<<"m", "e", "d", "i", "c", "a", "l", "_", "c", "o", "n", "d", "i", "t", "i", "o", "n">>,
                     <<"M", "e", "d", "i", "c", "a", "l", "_", "C", "o", "n", "d", "i", "t", "i", "o", "n">>,
                     <<"M", "e", "d", "i", "c", "a", "l", " ", "C", "o", "n", "d", "i", "t", "i", "o", "n">>>>
billing_names == <<<<"b", "i", "l", "l", "i", "n", "g", "_", "a", "m", "o", "u", "n", "t">>,
                   <<"B", "i", "l", "l", "i", "n", "g", "_", "A", "m", "o", "u", "n", "t">>,
                   <<"B", "i", "l", "l", "i", "n", "g", " ", "A", "m", "o", "u", "n", "t">>>>
target_names == <<<<"t", "e", "s", "t", "_", "r", "e", "s", "u", "l", "t", "s">>,
                  <<"T", "e", "s", "t", "_", "R", "e", "s", "u", "l", "t", "s">>,
                  <<"T", "e", "s", "t", " ", "R", "e", "s", "u", "l", "t", "s">>>>

\* for col in names: if col in data.columns: found = col; break
\* the first name that is a column, as <<name>>; <<>> stands for None
FirstColumnOf(data, names) ==
    IF \E n \in DOMAIN names : HasCol(data, names[n])
    THEN <<names[CHOOSE n \in DOMAIN names :
                    HasCol(data, names[n]) /\ \A h \in 1..(n - 1) : ~HasCol(data, names[h])]>>
    ELSE <<>>

\* 'age' if 'age' in data.columns, as <<name>> or <<>>
AgeColumnOf(data) == IF HasCol(data, t_age) THEN <<t_age>> ELSE <<>>

\* data[name] as the sequence of its cells, for a name that is a column
Field(data, name) == Column(data, Col(data, name))

Abnormal == Str(<<"A", "b", "n", "o", "r", "m", "a", "l">>)

\* (x == 'Abnormal').mean() * 100, kept as the count of the cells equal to
\* 'Abnormal' and the number of cells: the rate is 100 * abnormal / size, and
\* NaN when size is 0
AbnormalRate(cells) ==
    [abnormal |-> Cardinality({i \in DOMAIN cells : cells[i] = Abnormal}), size |-> Len(cells)]

\* the rate a is greater than the rate b (a comparison with NaN is False)
RateGreater(a, b) == a.size > 0 /\ b.size > 0 /\ a.abnormal * b.size > b.abnormal * a.size

\* the cells of a set in ascending order
RECURSIVE SortCells(_)
SortCells(S) ==
    IF S = {} THEN <<>>
    ELSE LET m == CHOOSE x \in S : \A y \in S : ~CellLess(y, x)
         IN <<m>> \o SortCells(S \ {m})

\* the keys of data.groupby(col): the distinct non-missing values in ascending
\* order (the rows with a missing key are in no group)
GroupKeys(keys) == SortCells({keys[i] : i \in {h \in DOMAIN keys : ~IsNull(keys[h])}})

\* the cells of `outcomes` on the rows of the group g
GroupOf(keys, outcomes, g) == KeepWhere(outcomes, [i \in DOMAIN keys |-> keys[i] = g])

\* data.groupby(col)[target].apply(lambda x: (x == 'Abnormal').mean() * 100)
RatesOfGroups(keys, outcomes, groups) ==
    [n \in DOMAIN groups |->
        [group |-> groups[n], rate |-> AbnormalRate(GroupOf(keys, outcomes, groups[n])),
         size |-> Len(GroupOf(keys, outcomes, groups[n]))]]

GroupRates(keys, outcomes) == RatesOfGroups(keys, outcomes, GroupKeys(keys))

\* Series.sort_values(ascending=False) on the rates: the greatest rate first;
\* entries of equal rate are taken to keep their order
SortByRateDescending(entries) ==
    [p \in DOMAIN entries |->
        entries[CHOOSE n \in DOMAIN entries :
                   p = 1 + Cardinality({h \in DOMAIN entries :
                                           \/ RateGreater(entries[h].rate, entries[n].rate)
                                           \/ (/\ ~RateGreater(entries[n].rate, entries[h].rate)
                                               /\ h < n)})]]

\* risk_analysis (lines 579-581)
RiskByCondition(keys, outcomes) == SortByRateDescending(GroupRates(keys, outcomes))

\* pd.cut(age, bins=[0, 18, 35, 55, 75, 100], labels=[...]): the number of the
\* interval (bins[n], bins[n+1]] that holds the age; 0 stands for NaN
age_bins == <<0, 18, 35, 55, 75, 100>>
age_labels == <<"<18", "18-34", "35-54", "55-74", "75+">>

AgeGroupOf(c) ==
    IF c.k = "num" /\ \E n \in DOMAIN age_labels :
                          age_bins[n] * Unit < c.v /\ c.v <= age_bins[n + 1] * Unit
    THEN CHOOSE n \in DOMAIN age_labels : age_bins[n] * Unit < c.v /\ c.v <= age_bins[n + 1] * Unit
    ELSE 0

\* pd.cut(data['age'], bins=[0, 18, 35, 55, 75, 100], labels=[...]) as the
\* position of each row's label (0: no label, the value is NaN)
Age_Group(ages) == [i \in DOMAIN ages |-> AgeGroupOf(ages[i])]

\* the chart of a run computes its Age_Group column (lines 199-205, 461-466
\* and 599-604)
CutAges(r, chart) ==
    IF r.status # "running" THEN r
    ELSE [r EXCEPT !.age_groups[chart] = <<Age_Group(Field(r.data, t_age))>>]

\* age_risk (lines 599-608): groupby('Age_Group') on the categorical column
\* gives one entry per label in the order of the labels (NaN for a label
\* without rows); it is not sorted
RiskByAgeGroup(ages, outcomes) ==
    [n \in DOMAIN age_labels |->
        [group |-> age_labels[n],
         rate |-> AbnormalRate(KeepWhere(outcomes, [i \in DOMAIN ages |-> AgeGroupOf(ages[i]) = n])),
         size |-> CountTrue([i \in DOMAIN ages |-> AgeGroupOf(ages[i]) = n])]]

\* Series.nunique(): the number of distinct non-missing values
NUnique(cells) == Cardinality({cells[i] : i \in {h \in DOMAIN cells : ~IsNull(cells[h])}})

\* Series.value_counts().index[0]: the most frequent non-missing value, the
\* first of them to appear when several are as frequent
TopValue(cells) ==
    cells[CHOOSE i \in DOMAIN cells :
             /\ ~IsNull(cells[i])
             /\ \A h \in DOMAIN cells :
                   ~IsNull(cells[h]) => Occurrences(cells, cells[h]) <= Occurrences(cells, cells[i])
             /\ \A h \in 1..(i - 1) :
                   IsNull(cells[h]) \/ Occurrences(cells, cells[h]) < Occurrences(cells, cells[i])]

\* the widget values of a run: the button clicked and the date column selected
VizNoClick == [click |-> "none", date_col |-> 0]

\* what a key metric shows when the field is absent
NA == <<>>

\* the state of a run of the page script
\*   data, shared: the local frame and whether it is the stored object itself
\*   source: the slot the frame was copied from
\*   loaded: the table as it was copied
\*   condition_col, billing_col, target_col: <<name>> or <<>> (None)
\*   reads: the fields whose column a step of the run has read or tried to read
\*   metrics: the five key metrics, each <<value>> or NA
\*   age_groups: the Age_Group column of each of the three age-group charts,
\*               <<column>> once the chart has computed it
VizBegin(ss) ==
    [status |-> "running", data |-> <<>>, shared |-> FALSE, source |-> "none", loaded |-> Absent,
     ss |-> ss, msgs |-> {}, reads |-> {}, condition_col |-> <<>>, billing_col |-> <<>>,
     target_col |-> <<>>, date_columns |-> {}, numerical_cols |-> {},
     metrics |-> [patients |-> NA, avg_age |-> NA, conditions |-> NA, avg_billing |-> NA,
                  abnormal |-> NA],
     risk_analysis |-> <<>>, age_risk |-> <<>>, insights |-> {}, report |-> <<>>,
     age_groups |-> [conditions |-> <<>>, target |-> <<>>, risk |-> <<>>],
     fired |-> FALSE]

\* session_state[key] without .copy(): the stored object itself
SlotItself(slot) == [table |-> slot[1], shared |-> TRUE]

\* session_state[key].copy(): a new object
CopyOfSlot(slot) == [table |-> slot[1], shared |-> FALSE]

\* lines 24-31: the data source
VizLoaded(r, f, source) ==
    [r EXCEPT !.data = f.table, !.shared = f.shared, !.source = source, !.loaded = <<f.table>>]

\* the data source with the two slots tried in the other order
VizLoadUploadedFirst(r) ==
    IF Present(r.ss.healthcare_data)
    THEN VizLoaded(r, CopyOfSlot(r.ss.healthcare_data), "healthcare_data")
    ELSE IF Present(r.ss.healthcare_data_processed)
    THEN VizLoaded(r, CopyOfSlot(r.ss.healthcare_data_processed), "healthcare_data_processed")
    ELSE [r EXCEPT !.status = "stopped",
                   !.msgs = {"Please upload and process the healthcare dataset first"}]

VizLoad(r) ==
    IF Present(r.ss.healthcare_data_processed)
    THEN VizLoaded(r, CopyOfSlot(r.ss.healthcare_data_processed), "healthcare_data_processed")
    ELSE IF Present(r.ss.healthcare_data)
    THEN VizLoaded(r, CopyOfSlot(r.ss.healthcare_data), "healthcare_data")
    ELSE [r EXCEPT !.status = "stopped",
                   !.msgs = {"Please upload and process the healthcare dataset first"}]

\* a change of the local frame in place: it reaches the slot the frame came
\* from when the frame is the stored object itself
VizMutate(r, table) ==
    [r EXCEPT !.data = table,
              !.ss = IF ~r.shared THEN @
                     ELSE IF r.source = "healthcare_data" THEN [@ EXCEPT !.healthcare_data = <<table>>]
                     ELSE [@ EXCEPT !.healthcare_data_processed = <<table>>]]

\* a step reads data[col] for the field: col is <<name>>; reading with None
\* or with a name that is not a column raises (KeyError)
ReadField(r, field, col) ==
    IF r.status # "running" THEN r
    ELSE IF col = <<>> \/ ~HasCol(r.data, col[1])
    THEN [r EXCEPT !.status = "exception", !.reads = @ \cup {field}]
    ELSE [r EXCEPT !.reads = @ \cup {field}]

\* a step that needs numbers (mean, describe, pd.cut, quantile) raises on a
\* column of texts, and on a name that is repeated in the frame
ReadNumbers(r, field, col) ==
    IF r.status # "running" THEN r
    ELSE IF col = <<>> \/ ~HasCol(r.data, col[1])
    THEN [r EXCEPT !.status = "exception", !.reads = @ \cup {field}]
    ELSE IF Cardinality(ColIdx(r.data, col[1])) > 1 \/ r.data.dtype[Col(r.data, col[1])] = "object"
    THEN [r EXCEPT !.status = "exception", !.reads = @ \cup {field}]
    ELSE [r EXCEPT !.reads = @ \cup {field}]

\* lines 39-40: Total Patients
MetricPatients(r) ==
    IF r.status # "running" THEN r ELSE [r EXCEPT !.metrics.patients = <<Len(r.data.rows)>>]

\* lines 42-47: Average Age
ShowAverageAge(r) ==
    IF r.status # "running" THEN r
    ELSE [r EXCEPT !.metrics.avg_age = <<Mean(Field(r.data, t_age))>>]

MetricAge(r) ==
    IF r.status # "running" THEN r
    ELSE IF HasCol(r.data, t_age) THEN ShowAverageAge(ReadNumbers(r, "age", <<t_age>>))
    ELSE [r EXCEPT !.metrics.avg_age = NA]

\* lines 49-60: Medical Conditions
ShowConditions(r) ==
    IF r.status # "running" THEN r
    ELSE [r EXCEPT !.metrics.conditions = <<NUnique(Field(r.data, r.condition_col[1]))>>]

MetricConditionsOf(r) ==
    IF r.condition_col # <<>> THEN ShowConditions(ReadField(r, "condition", r.condition_col))
    ELSE [r EXCEPT !.metrics.conditions = NA]

MetricConditions(r) ==
    IF r.status # "running" THEN r
    ELSE MetricConditionsOf([r EXCEPT !.condition_col = FirstColumnOf(r.data, condition_names)])

\* lines 62-73: Avg Billing
ShowAverageBilling(r) ==
    IF r.status # "running" THEN r
    ELSE [r EXCEPT !.metrics.avg_billing = <<Mean(Field(r.data, r.billing_col[1]))>>]

MetricBillingOf(r) ==
    IF r.billing_col # <<>> THEN ShowAverageBilling(ReadNumbers(r, "billing", r.billing_col))
    ELSE [r EXCEPT !.metrics.avg_billing = NA]

MetricBilling(r) ==
    IF r.status # "running" THEN r
    ELSE MetricBillingOf([r EXCEPT !.billing_col = FirstColumnOf(r.data, billing_names)])

\* lines 75-86: Abnormal Tests
ShowAbnormal(r) ==
    IF r.status # "running" THEN r
    ELSE [r EXCEPT !.metrics.abnormal = <<AbnormalRate(Field(r.data, r.target_col[1]))>>]

MetricAbnormalOf(r) ==
    IF r.target_col # <<>> THEN ShowAbnormal(ReadField(r, "target", r.target_col))
    ELSE [r EXCEPT !.metrics.abnormal = NA]

MetricAbnormal(r) ==
    IF r.status # "running" THEN r
    ELSE MetricAbnormalOf([r EXCEPT !.target_col = FirstColumnOf(r.data, target_names)])

\* lines 36-86: the key metrics
VizMetrics(r) == MetricAbnormal(MetricBilling(MetricConditions(MetricAge(MetricPatients(r)))))

\* lines 100-169: Demographics: the charts of gender, blood type and age
VizDemographics(r) ==
    IF r.status # "running" THEN r
    ELSE IF HasCol(r.data, t_age) THEN ReadField(r, "age", <<t_age>>)
    ELSE r

\* lines 195-218: Medical Conditions by Age Group (pd.cut needs numbers)
ConditionsByAge(r) ==
    IF r.status # "running" THEN r
    ELSE IF HasCol(r.data, t_age)
    THEN CutAges(ReadNumbers(r, "age", <<t_age>>), "conditions")
    ELSE r

\* lines 220-237: Medical Conditions by Gender; condition_gender.iloc[:, 1]
\* raises when the gender column has fewer than two values
ConditionsByGender(r) ==
    IF r.status # "running" \/ ~HasCol(r.data, t_gender) THEN r
    ELSE IF NUnique(Field(r.data, t_gender)) < 2 \/ NUnique(Field(r.data, r.condition_col[1])) < 1
    THEN [r EXCEPT !.status = "exception"]
    ELSE r

\* lines 171-237: Medical Conditions
VizConditions(r) ==
    IF r.status # "running" THEN r
    ELSE IF r.condition_col # <<>>
    THEN ConditionsByGender(ConditionsByAge(ReadField(r, "condition", r.condition_col)))
    ELSE r

\* lines 277-293: Average Billing by Medical Condition
BillingByCondition(r) ==
    IF r.status # "running" THEN r
    ELSE IF r.condition_col # <<>> THEN ReadField(r, "condition", r.condition_col)
    ELSE r

\* lines 239-331: Financial Analysis
VizFinancial(r) ==
    IF r.status # "running" THEN r
    ELSE IF r.billing_col # <<>> THEN BillingByCondition(ReadNumbers(r, "billing", r.billing_col))
    ELSE r

\* .dt.day_name()
day_names == <<<<"M", "o", "n", "d", "a", "y">>, <<"T", "u", "e", "s", "d", "a", "y">>,
               <<"W", "e", "d", "n", "e", "s", "d", "a", "y">>, <<"T", "h", "u", "r", "s", "d", "a", "y">>,
               <<"F", "r", "i", "d", "a", "y">>, <<"S", "a", "t", "u", "r", "d", "a", "y">>,
               <<"S", "u", "n", "d", "a", "y">>>>

DtDayName(c) == IF c.k = "ts" THEN Str(day_names[((Ordinal(c) + 3) % 7) + 1]) ELSE NaN

\* lines 349-378: the frame with the selected column as datetime and the
\* columns Month, Year and Weekday derived from it
TemporalColumns(data, j) ==
    Assign(AssignNumbers(AssignNumbers(data, <<"M", "o", "n", "t", "h">>,
                                       [i \in DOMAIN data.rows |-> DtMonth(data.rows[i][j])]),
                         <<"Y", "e", "a", "r">>,
                         [i \in DOMAIN data.rows |-> DtYear(data.rows[i][j])]),
           <<"W", "e", "e", "k", "d", "a", "y">>,
           [i \in DOMAIN data.rows |-> DtDayName(data.rows[i][j])], "object")

\* lines 345-409: the selected date column is converted in the local frame;
\* an exception of the block shows 'Error processing date column'
TemporalAnalysis(r, j) ==
    IF ToDatetimeRaises(Column(r.data, j))
    THEN [r EXCEPT !.msgs = @ \cup {"Error processing date column"}]
    ELSE VizMutate(r, TemporalColumns(SetColumn(r.data, j, to_datetime(Column(r.data, j)),
                                                "datetime64[ns]"), j))

\* lines 333-411: Temporal Patterns; data[col].dtype raises for a repeated name
VizTemporalOf(r, w) ==
    IF r.date_columns = {}
    THEN [r EXCEPT !.msgs = @ \cup {"No date columns found for temporal analysis"}]
    ELSE IF w.date_col \in r.date_columns THEN TemporalAnalysis(r, w.date_col)
    ELSE TemporalAnalysis(r, CHOOSE j \in r.date_columns : \A h \in r.date_columns : j <= h)

VizTemporal(r, w) ==
    IF r.status # "running" THEN r
    ELSE IF HasDuplicateNames(r.data) THEN [r EXCEPT !.status = "exception"]
    ELSE VizTemporalOf([r EXCEPT !.date_columns = date_cols(r.data)], w)

\* lines 443-456: Test Results by Medical Condition
TargetByCondition(r) ==
    IF r.status # "running" THEN r
    ELSE IF r.condition_col # <<>> THEN ReadField(r, "condition", r.condition_col)
    ELSE r

\* lines 458-479: Test Results by Age Group
TargetByAge(r) ==
    IF r.status # "running" THEN r
    ELSE IF HasCol(r.data, t_age)
    THEN CutAges(ReadNumbers(r, "age", <<t_age>>), "target")
    ELSE r

\* lines 413-479: Target Variable Analysis
VizTarget(r) ==
    IF r.status # "running" THEN r
    ELSE IF r.target_col # <<>>
    THEN TargetByAge(TargetByCondition(ReadField(r, "target", r.target_col)))
    ELSE r

\* the fields among the numerical columns
NumericalFields(r) ==
    {f \in {"age", "billing"} :
        \E j \in r.numerical_cols :
            \/ (f = "age" /\ r.data.columns[j] = t_age)
            \/ (f = "billing" /\ <<r.data.columns[j]>> = r.billing_col)}

\* lines 481-540 and 550-553: the correlations and the summary of the
\* numerical columns
VizCorrelationsOf(r) == [r EXCEPT !.reads = @ \cup NumericalFields(r)]

VizCorrelations(r) ==
    IF r.status # "running" THEN r
    ELSE VizCorrelationsOf([r EXCEPT !.numerical_cols = numerical_cols(r.data)])

\* the fields among the object columns
CategoricalFields(r) ==
    {f \in {"age", "condition", "billing", "target"} :
        \E j \in categorical_cols(r.data) :
            \/ (f = "age" /\ r.data.columns[j] = t_age)
            \/ (f = "condition" /\ <<r.data.columns[j]>> = r.condition_col)
            \/ (f = "billing" /\ <<r.data.columns[j]>> = r.billing_col)
            \/ (f = "target" /\ <<r.data.columns[j]>> = r.target_col)}

\* lines 555-570: the summary of the object columns;
\* data[col].value_counts().iloc[0] raises for a column without any value
VizSummary(r) ==
    IF r.status # "running" THEN r
    ELSE IF \E j \in categorical_cols(r.data) :
                Len(r.data.rows) > 0 /\ \A i \in DOMAIN r.data.rows : IsNull(r.data.rows[i][j])
    THEN [r EXCEPT !.status = "exception"]
    ELSE [r EXCEPT !.reads = @ \cup CategoricalFields(r)]

\* the guard of the Risk Factors tab with the condition left out
\* (the variant C17 is tested against)
RiskGuardOnTarget(r) == r.target_col # <<>>

\* line 575: if target_col and condition_col
RiskGuard(r) == r.target_col # <<>> /\ r.condition_col # <<>>

\* lines 576-593: Risk Assessment by Medical Condition
RiskConditionStep(r) ==
    IF r.status # "running" THEN r
    ELSE [r EXCEPT !.risk_analysis = RiskByCondition(Field(r.data, r.condition_col[1]),
                                                     Field(r.data, r.target_col[1]))]

\* lines 595-619: Risk Assessment by Age Group
RiskAgeStep(r) ==
    IF r.status # "running" THEN r
    ELSE [r EXCEPT !.age_risk = RiskByAgeGroup(Field(r.data, t_age), Field(r.data, r.target_col[1]))]

RiskByAge(r) ==
    IF r.status # "running" THEN r
    ELSE IF HasCol(r.data, t_age)
    THEN RiskAgeStep(CutAges(ReadNumbers(r, "age", <<t_age>>), "risk"))
    ELSE r

\* lines 572-619: Risk Factors
VizRisk(r) ==
    IF r.status # "running" THEN r
    ELSE IF RiskGuard(r)
    THEN RiskByAge(RiskConditionStep(ReadField(ReadField(r, "condition", r.condition_col),
                                               "target", r.target_col)))
    ELSE r

\* lines 627-630
InsightAge(r) ==
    IF r.status # "running" THEN r
    ELSE IF HasCol(r.data, t_age)
    THEN [ReadNumbers(r, "age", <<t_age>>) EXCEPT !.insights = @ \cup {"Demographics"}]
    ELSE r

\* lines 632-636; value_counts().index[0] raises for a column without any value
InsightCondition(r) ==
    IF r.status # "running" THEN r
    ELSE IF r.condition_col = <<>> THEN r
    ELSE IF NUnique(Field(r.data, r.condition_col[1])) = 0 THEN [r EXCEPT !.status = "exception"]
    ELSE [ReadField(r, "condition", r.condition_col)
             EXCEPT !.insights = @ \cup {"Most Common Condition"}]

\* lines 638-643
InsightBilling(r) ==
    IF r.status # "running" THEN r
    ELSE IF r.billing_col = <<>> THEN r
    ELSE [ReadNumbers(r, "billing", r.billing_col) EXCEPT !.insights = @ \cup {"Financial"}]

\* lines 645-648
InsightTarget(r) ==
    IF r.status # "running" THEN r
    ELSE IF r.target_col = <<>> THEN r
    ELSE [ReadField(r, "target", r.target_col) EXCEPT !.insights = @ \cup {"Test Results"}]

\* lines 621-663: Key Insights
VizInsights(r) == InsightTarget(InsightBilling(InsightCondition(InsightAge(r))))

\* avg_age = data['age'].mean() if 'age' in data.columns else 0
ReportAge(r) ==
    IF r.status # "running" THEN r
    ELSE IF HasCol(r.data, t_age)
    THEN [ReadNumbers(r, "age", <<t_age>>) EXCEPT !.report[1].avg_age = Mean(Field(r.data, t_age))]
    ELSE [r EXCEPT !.report[1].avg_age = Num(0)]

\* top_condition = data[condition_col].value_counts().index[0] if condition_col else 'N/A'
ReportCondition(r) ==
    IF r.status # "running" THEN r
    ELSE IF r.condition_col = <<>> THEN [r EXCEPT !.report[1].top_condition = NA]
    ELSE IF NUnique(Field(r.data, r.condition_col[1])) = 0 THEN [r EXCEPT !.status = "exception"]
    ELSE [ReadField(r, "condition", r.condition_col)
             EXCEPT !.report[1].top_condition = <<TopValue(Field(r.data, r.condition_col[1]))>>]

\* the rate 0
ZeroRate == [abnormal |-> 0, size |-> 1]

\* abnormal_rate = (data[target_col] == 'Abnormal').mean() * 100 if target_col else 0
ReportAbnormal(r) ==
    IF r.status # "running" THEN r
    ELSE IF r.target_col = <<>> THEN [r EXCEPT !.report[1].abnormal_rate = ZeroRate]
    ELSE [ReadField(r, "target", r.target_col)
             EXCEPT !.report[1].abnormal_rate = AbnormalRate(Field(r.data, r.target_col[1]))]

\* the first date column has a date: min() and max() can be formatted
HasDates(data, j) ==
    data.dtype[j] = "datetime64[ns]" /\ \E i \in DOMAIN data.rows : data.rows[i][j].k = "ts"

\* lines 677-685: the date range of the first date column; any exception of
\* the block gives 'Date format error'
ReportDates(r) ==
    IF r.status # "running" THEN r
    ELSE IF r.date_columns = {} THEN [r EXCEPT !.report[1].date_range = "N/A"]
    ELSE IF HasDates(r.data, CHOOSE j \in r.date_columns : \A h \in r.date_columns : j <= h)
    THEN [r EXCEPT !.report[1].date_range = "from min_date to max_date"]
    ELSE [r EXCEPT !.report[1].date_range = "Date format error"]

\* lines 668-703: Generate Analysis Report
VizReport(r, w) ==
    IF r.status # "running" \/ w.click # "generate_report" THEN r
    ELSE ReportDates(ReportAbnormal(ReportCondition(ReportAge(
             [r EXCEPT !.fired = TRUE,
                       !.msgs = @ \cup {"Analysis complete"},
                       !.report = <<[total_patients |-> Len(r.data.rows), avg_age |-> Num(0),
                                     top_condition |-> NA, abnormal_rate |-> ZeroRate,
                                     date_range |-> "N/A"]>>]))))

VizEnd(r) == IF r.status # "running" THEN r ELSE [r EXCEPT !.status = "done"]

\* one run of pages/5_Data_Visualization.py with the widget values w
VisualizationTabs(r, w) ==
    VizCorrelations(VizTarget(VizTemporal(VizFinancial(VizConditions(VizDemographics(r))), w)))

VisualizationRun(ss, w) ==
    VizEnd(VizReport(VizInsights(VizRisk(VizSummary(
        VisualizationTabs(VizMetrics(VizLoad(VizBegin(ss))), w)))), w))

----------------------------------------------------------------------------
(* The files a user uploads in the session model *)

h_Age == <<"A", "g", "e">>
h_age == <<"a", "g", "e">>
h_Date_of_Admission == <<"D", "a", "t", "e", " ", "o", "f", " ", "A", "d", "m", "i", "s", "s", "i", "o", "n">>
h_Discharge_Date == <<"D", "i", "s", "c", "h", "a", "r", "g", "e", " ", "D", "a", "t", "e">>
d_admitted == <<"2", "0", "2", "4", "-", "0", "1", "-", "0", "1">>
d_discharged == <<"2", "0", "2", "4", "-", "0", "1", "-", "0", "5">>
x_unknown == <<"u", "n", "k", "n", "o", "w", "n">>

\* a record of a well-formed file, and the records that differ from it by a
\* missing age, by a text that is no date in either date column, by an
\* extreme age and by an age of zero
RowPlain == <<Num(30 * Unit), Str(d_admitted), Str(d_discharged)>>
RowNoAge == <<NaN, Str(d_admitted), Str(x_unknown)>>
RowBadAdmission == <<Num(30 * Unit), Str(x_unknown), Str(d_discharged)>>
RowOldAge == <<Num(90 * Unit), Str(d_admitted), Str(d_discharged)>>
RowZeroAge == <<Num(0), Str(d_admitted), Str(d_discharged)>>

SpecialRows == {RowNoAge, RowBadAdmission, RowOldAge, RowZeroAge}

\* the CSV files of the session model: up to MaxRows records, plain ones
\* followed by at most one special record; a file whose two column names
\* differ only by case; a file pd.read_csv cannot parse
PatientFiles ==
    {[readable |-> TRUE, header |-> <<h_Age, h_Date_of_Admission, h_Discharge_Date>>,
      rows |-> [i \in 1..m |-> RowPlain] \o tail] :
        m \in 0..MaxRows,
        tail \in {<<>>} \cup {<<x>> : x \in SpecialRows}}

Files ==
    {f \in PatientFiles : Len(f.rows) \in 1..MaxRows}
    \cup {[readable |-> TRUE, header |-> <<h_Age, h_age>>,
           rows |-> <<<<Num(30 * Unit), Num(31 * Unit)>>>>]}
    \cup {[readable |-> FALSE, header |-> <<>>, rows |-> <<>>]}

----------------------------------------------------------------------------
(* State *)

VARIABLES
    session,    \* st.session_state: the two table slots
    page,       \* the page whose script ran last: "none", "main", "preprocessing",
                \* "visualization"
    last,       \* the outcome of the last script run: how it ended, what it showed
    act         \* the last user interaction with the preprocessing page

vars == <<session, page, last, act>>

NoAct == [click |-> "none", col |-> 0, cols |-> {}, method |-> "", fired |-> FALSE,
          input |-> Absent, wrote |-> Absent, msgs |-> {}, csv |-> <<>>,
          processed_before |-> Absent, duplicates |-> <<>>, ended |-> "none", stored |-> Absent,
          treat |-> <<>>]

NoRun == [status |-> "none", msgs |-> {}, detect |-> <<>>, treat |-> <<>>, progress |-> <<>>,
          duplicates |-> <<>>, viz |-> <<>>, upload |-> <<>>, replaced |-> FALSE]

Init ==
    /\ session = EmptySession
    /\ page = "none"
    /\ last = NoRun
    /\ act = NoAct

\* the main page runs with `upload` in the file uploader
RunMain(upload) ==
    \E r \in {MainRun(session, upload)} :
       /\ session' = r.ss
       /\ page' = "main"
       /\ last' = [NoRun EXCEPT !.status = r.status, !.msgs = r.msgs, !.progress = r.progress,
                                !.upload = IF upload = <<>> THEN <<>> ELSE <<upload[1].header>>,
                                !.replaced = /\ Present(session.healthcare_data)
                                             /\ r.ss.healthcare_data # session.healthcare_data]
       /\ act' = NoAct

\* the user uploads a file on the main page
UploadFile == \E f \in Files : RunMain(<<f>>)

\* the user opens the main page with an empty uploader
OpenMain == RunMain(<<>>)

\* the first numeric column of the uploaded table (0: none): the default of
\* the select boxes of the outlier panels
FirstNumericCol(ss) ==
    IF ~Present(ss.healthcare_data) \/ numerical_cols(ss.healthcare_data[1]) = {} THEN 0
    ELSE CHOOSE j \in numerical_cols(ss.healthcare_data[1]) :
             \A h \in numerical_cols(ss.healthcare_data[1]) : j <= h

\* the uploaded table (an empty table when there is none)
Uploaded(ss) ==
    IF Present(ss.healthcare_data) THEN ss.healthcare_data[1] ELSE Table(<<>>, <<>>, <<>>)

\* the state after a user interaction with the preprocessing page, x being
\* the runs it made
AfterPreprocessing(w, x) ==
    /\ session' = x.last.ss
    /\ page' = "preprocessing"
    /\ last' = [NoRun EXCEPT !.status = x.last.status, !.msgs = x.last.msgs,
                             !.detect = x.last.detect, !.treat = x.last.treat,
                             !.duplicates = x.last.duplicates]
    /\ act' = [click |-> w.click, col |-> w.col, cols |-> w.cols, method |-> w.method,
              fired |-> x.first.fired,
              input |-> IF x.first.data = <<>> THEN Absent ELSE <<session.healthcare_data[1]>>,
              wrote |-> x.first.wrote, msgs |-> x.first.msgs, csv |-> x.first.csv,
              processed_before |-> session.healthcare_data_processed,
              duplicates |-> x.first.duplicates,
              ended |-> x.first.status, stored |-> x.first.ss.healthcare_data_processed,
              treat |-> x.first.treat]

\* the preprocessing page runs with the widget values w
RunPreprocessing(w) ==
    \E x \in {PreprocessingInteraction(session, w)} : AfterPreprocessing(w, x)

\* the user opens the page, or changes a select box of an outlier panel
OpenPreprocessing ==
    \E j \in {FirstNumericCol(session)} \cup numerical_cols(Uploaded(session)) :
        RunPreprocessing([NoClick EXCEPT !.outlier_col = j, !.outlier_treatment_col = j])

\* a button can be clicked when the last run of the page drew it: the page
\* ran to its end, and the run the click triggers reaches the button
Click(w) ==
    /\ page = "preprocessing"
    /\ last.status = "done"
    /\ \E x \in {PreprocessingInteraction(session, w)} :
          x.first.fired /\ AfterPreprocessing(w, x)

Widgets(click, col, cols, method) ==
    [NoClick EXCEPT !.click = click, !.col = col, !.cols = cols, !.method = method,
                    !.outlier_col = FirstNumericCol(session),
                    !.outlier_treatment_col = FirstNumericCol(session)]

\* 'Apply treatment for <col>' with one of the treatments its select box offers
ApplyMissingTreatment ==
    \E j \in missing_cols(Uploaded(session)) :
        \E m \in TreatmentOptions(Uploaded(session), j) :
            Click(Widgets("apply_missing", j, {}, m))

\* 'Remove Duplicate Records'
RemoveDuplicateRecords == Click(Widgets("remove_duplicates", 0, {}, ""))

\* 'Convert <col> to datetime'
ConvertToDatetime ==
    \E j \in date_columns(Uploaded(session)) : Click(Widgets("convert_datetime", j, {}, ""))

\* 'Apply <treatment_method>' of the Outlier Treatment panel
ApplyOutlierTreatment ==
    \E j \in numerical_cols(Uploaded(session)) : \E m \in OutlierMethods :
        Click([Widgets("apply_outlier_treatment", j, {}, m) EXCEPT !.outlier_treatment_col = j])

\* 'Extract Date Features'
ExtractDateFeaturesClick ==
    \E j \in date_cols(Uploaded(session)) : Click(Widgets("date_features", j, {}, ""))

\* 'Apply Encoding'
ApplyEncoding ==
    \E j \in categorical_cols(Uploaded(session)) : \E m \in EncodingMethods :
        Click(Widgets("apply_encoding", j, {}, m))

\* 'Apply Scaling'
ApplyScaling ==
    \E c \in (SUBSET numerical_cols(Uploaded(session))) \ {{}} : \E m \in ScalingMethods :
        Click(Widgets("apply_scaling", 0, c, m))

\* 'Calculate Length of Stay'
CalculateLengthOfStay == Click(Widgets("los_calc", 0, {}, ""))

\* 'Create Age Groups'
CreateAgeGroups == Click(Widgets("age_groups", 0, {}, ""))

\* 'Prepare Data for Download'
PrepareDataForDownload == Click(Widgets("prepare_download", 0, {}, ""))

\* the table the visualization page works on (an empty table when there is none)
VizSource(ss) ==
    IF Present(ss.healthcare_data_processed) THEN ss.healthcare_data_processed[1]
    ELSE Uploaded(ss)

\* the state after a run x of the visualization page
AfterVisualization(x) ==
    /\ session' = x.ss
    /\ page' = "visualization"
    /\ last' = [NoRun EXCEPT !.status = x.status, !.msgs = x.msgs,
                             !.viz = <<[source |-> x.source, table |-> x.loaded,
                                        frame |-> x.data, age_groups |-> x.age_groups,
                                        metrics |-> x.metrics,
                                        reads |-> x.reads, risk_analysis |-> x.risk_analysis,
                                        age_risk |-> x.age_risk, insights |-> x.insights,
                                        report |-> x.report]>>]
    /\ act' = NoAct

\* the user opens the visualization page, or selects a date column on it
OpenVisualization ==
    \E j \in {0} \cup date_cols(VizSource(session)) :
        \E x \in {VisualizationRun(session, [VizNoClick EXCEPT !.date_col = j])} :
            AfterVisualization(x)

\* 'Generate Analysis Report': the button is drawn when the last run of the
\* page reached its end
GenerateAnalysisReport ==
    /\ page = "visualization"
    /\ last.status = "done"
    /\ \E j \in {0} \cup date_cols(VizSource(session)) :
          \E x \in {VisualizationRun(session, [click |-> "generate_report", date_col |-> j])} :
              x.fired /\ AfterVisualization(x)

Next ==
    \/ UploadFile
    \/ OpenMain
    \/ OpenPreprocessing
    \/ ApplyMissingTreatment
    \/ RemoveDuplicateRecords
    \/ ConvertToDatetime
    \/ ApplyOutlierTreatment
    \/ ExtractDateFeaturesClick
    \/ ApplyEncoding
    \/ ApplyScaling
    \/ CalculateLengthOfStay
    \/ CreateAgeGroups
    \/ PrepareDataForDownload
    \/ OpenVisualization
    \/ GenerateAnalysisReport

Spec == Init /\ [][Next]_vars

----------------------------------------------------------------------------
(* The outlier computations on every short numeric column *)

\* the cells of the columns drawn: a missing value, -1, 0, 1 .. MaxVal
AgeCells == {NaN} \cup {Num(v * Unit) : v \in -1..MaxVal}

\* the column of the worked example of the specification
ExampleColumn == <<Num(10 * Unit), Num(200 * Unit), Num(30 * Unit), Num(32 * Unit), Num(31 * Unit)>>

\* a column with a missing value and an outlier
ColumnWithMissing == <<Num(30 * Unit), NaN, Num(30 * Unit), Num(30 * Unit), Num(90 * Unit)>>

\* CSV files with the single column 'Age': every column of 1..MaxLen cells,
\* the example column and the column with a missing value
AgeFiles ==
    {[readable |-> TRUE, header |-> <<h_Age>>, rows |-> [i \in DOMAIN c |-> <<c[i]>>]] :
        c \in (UNION {[1..n -> AgeCells] : n \in 1..MaxLen}) \cup {ExampleColumn, ColumnWithMissing}}

\* the session right after one of these files was uploaded on the main page
InitOutlier ==
    \E f \in AgeFiles :
        \E r \in {MainRun(EmptySession, <<f>>)} :
            /\ session = r.ss
            /\ page = "main"
            /\ last = [NoRun EXCEPT !.status = r.status, !.msgs = r.msgs, !.progress = r.progress]
            /\ act = NoAct

NextOutlier ==
    \/ OpenPreprocessing
    \/ ApplyOutlierTreatment

SpecOutlier == InitOutlier /\ [][NextOutlier]_vars

----------------------------------------------------------------------------
(* The visualization page on every small table of patients *)

h_Medical_Condition == <<"M", "e", "d", "i", "c", "a", "l", " ", "C", "o", "n", "d", "i", "t", "i", "o", "n">>
h_Billing_Amount == <<"B", "i", "l", "l", "i", "n", "g", " ", "A", "m", "o", "u", "n", "t">>
h_Test_Results == <<"T", "e", "s", "t", " ", "R", "e", "s", "u", "l", "t", "s">>

\* the header of the files and the cells drawn for each of its columns
VizHeader == <<h_Age, h_Medical_Condition, h_Billing_Amount, h_Test_Results>>

VizCells ==
    <<{Num(10 * Unit), Num(40 * Unit)},
      {Str(<<"A">>), Str(<<"B">>), NaN},
      {Num(100 * Unit)},
      {Abnormal, Str(<<"N", "o", "r", "m", "a", "l">>)}>>

\* the columns a file has: all four fields, or some of them left out
VizColumnSets == {<<1, 2, 3, 4>>, <<2, 3, 4>>, <<1, 3, 4>>, <<1, 4>>, <<1, 2, 3>>, <<3>>}

\* the records of a file with the columns cs
VizRows(cs) ==
    {[n \in DOMAIN cs |-> full[cs[n]]] :
        full \in {row \in [1..4 -> UNION Range(VizCells)] : \A n \in 1..4 : row[n] \in VizCells[n]}}

\* CSV files of 1..MaxVizRows records
VizFiles ==
    {[readable |-> TRUE, header |-> [n \in DOMAIN f.cs |-> VizHeader[f.cs[n]]], rows |-> f.rows] :
        f \in UNION {[cs : {cs}, rows : UNION {[1..n -> VizRows(cs)] : n \in 1..MaxVizRows}] :
                        cs \in VizColumnSets}}

\* the session right after one of these files was uploaded on the main page
InitViz ==
    \E f \in VizFiles :
        \E r \in {MainRun(EmptySession, <<f>>)} :
            /\ session = r.ss
            /\ page = "main"
            /\ last = [NoRun EXCEPT !.status = r.status, !.msgs = r.msgs, !.progress = r.progress]
            /\ act = NoAct

NextViz ==
    \/ OpenVisualization
    \/ GenerateAnalysisReport

SpecViz == InitViz /\ [][NextViz]_vars

----------------------------------------------------------------------------
(* The upload of files with every short column name *)

h_Test_Results_hyphen == <<"T", "e", "s", "t", "-", "R", "e", "s", "u", "l", "t", "s">>
h_Blood_Type == <<"B", "l", "o", "o", "d", " ", "T", "y", "p", "e">>

\* the characters of the names drawn: an upper-case and a lower-case letter,
\* a space, a hyphen and an underscore
NameChars == {"A", "b", " ", "-", "_"}

\* every name of 1..MaxName of these characters
ShortNames == UNION {[1..n -> NameChars] : n \in 1..MaxName}

\* the headers of the files: one short name, or names of the fields the
\* column mapping lists, written as a file may write them
NamedHeaders ==
    {<<n>> : n \in ShortNames}
    \cup {<<h_Test_Results_hyphen, h_Blood_Type>>, <<h_Date_of_Admission, h_Billing_Amount>>,
          <<h_Medical_Condition, h_Test_Results>>}

\* CSV files of one record with these headers
NamedFiles ==
    {[readable |-> TRUE, header |-> h, rows |-> <<[j \in DOMAIN h |-> Num(Unit)]>>] :
        h \in NamedHeaders}

\* the user uploads one of these files on the main page
UploadNamedFile == \E f \in NamedFiles : RunMain(<<f>>)

NextUpload == UploadNamedFile

SpecUpload == Init /\ [][NextUpload]_vars

----------------------------------------------------------------------------
(* The age groups of both pages for every age *)

\* the records drawn: an age, the condition 'A' and a test result
AgeRecords(ages) ==
    {<<a, Str(<<"A">>), t>> : a \in ages, t \in {Abnormal, Str(<<"N", "o", "r", "m", "a", "l">>)}}

\* the ages of the tables of several rows: a missing age, the ages at the
\* ends of the bins and an age inside a bin
MixedAges == {NaN, Num(0), Num(18 * Unit), Num(50 * Unit), Num(MaxAge * Unit)}

\* CSV files with the columns 'Age', 'Medical Condition' and 'Test Results':
\* one record for every whole age of 0..MaxAge, and every table of
\* 2..MaxAgeRows records of the mixed ages
PatientAgeFiles ==
    {[readable |-> TRUE, header |-> <<h_Age, h_Medical_Condition, h_Test_Results>>, rows |-> rows] :
        rows \in {<<x>> : x \in AgeRecords({Num(y * Unit) : y \in 0..MaxAge})}
                 \cup UNION {[1..n -> AgeRecords(MixedAges)] : n \in 2..MaxAgeRows}}

\* the session right after one of these files was uploaded on the main page
InitAge ==
    \E f \in PatientAgeFiles :
        \E r \in {MainRun(EmptySession, <<f>>)} :
            /\ session = r.ss
            /\ page = "main"
            /\ last = [NoRun EXCEPT !.status = r.status, !.msgs = r.msgs, !.progress = r.progress]
            /\ act = NoAct

NextAge ==
    \/ OpenPreprocessing
    \/ CreateAgeGroups
    \/ OpenVisualization

SpecAge == InitAge /\ [][NextAge]_vars

----------------------------------------------------------------------------
(* The missing-value treatments on every small table with missing cells *)

\* the cells drawn for the numeric column and for the text column
MissingCells ==
    <<{NaN, Num(1 * Unit), Num(4 * Unit)},
      {NaN, Str(<<"A">>), Str(<<"B">>)}>>

\* CSV files with the columns 'Age' and 'Medical Condition' and
\* 1..MaxMissingRows records
MissingFiles ==
    {[readable |-> TRUE, header |-> <<h_Age, h_Medical_Condition>>, rows |-> rows] :
        rows \in UNION {[1..n -> MissingCells[1] \X MissingCells[2]] : n \in 1..MaxMissingRows}}

\* the session right after one of these files was uploaded on the main page
InitMissing ==
    \E f \in MissingFiles :
        \E r \in {MainRun(EmptySession, <<f>>)} :
            /\ session = r.ss
            /\ page = "main"
            /\ last = [NoRun EXCEPT !.status = r.status, !.msgs = r.msgs, !.progress = r.progress]
            /\ act = NoAct

NextMissing ==
    \/ OpenPreprocessing
    \/ ApplyMissingTreatment

SpecMissing == InitMissing /\ [][NextMissing]_vars
----------------------------------------------------------------------------
(* Properties *)

\* the messages of the actions that succeed
SuccessMessages ==
    {"missing values treated", "Removed duplicate records", "Converted to datetime",
     "Removed outliers", "Capped outliers", "Applied log transformation",
     "Extracted date features", "Applied label encoding", "Applied one-hot encoding",
     "Applied frequency encoding", "Applied scaling to selected columns",
     "Created Length of Stay feature", "Created age group categories"}

\* the messages of the transform actions that fail
ErrorMessages ==
    {"Error converting", "Error extracting date features", "Error calculating length of stay"}

\* the last interaction was a preprocessing action that succeeded; the state
\* is the one after the re-render the action triggered
ActionSucceeded ==
    /\ page = "preprocessing"
    /\ act.fired
    /\ act.wrote # Absent
    /\ act.msgs \cap SuccessMessages # {}

\* C1: after a preprocessing action succeeded, and through the re-render it
\* triggers, the processed table of the session store is the table the
\* action produced.
C1_ProcessedIsActionResult ==
    ActionSucceeded => session.healthcare_data_processed = act.wrote

TransformFailed ==
    /\ page = "preprocessing"
    /\ act.fired
    /\ act.click \in {"convert_datetime", "date_features", "los_calc"}
    /\ act.msgs \cap ErrorMessages # {}

C4_ErrorLoadingKeepsUploaded ==
    [][(page' = "main" /\ "Error loading data" \in last'.msgs)
          => session'.healthcare_data = session.healthcare_data]_vars

\* C5: no run of the Data Preprocessing page, with or without a click,
\* successful or failed, changes the uploaded table of the session store.
C5_UploadedUnchanged ==
    [][page' = "preprocessing" => session'.healthcare_data = session.healthcare_data]_vars

\* an action changed its working table in place and stored it, and the
\* uploaded table is still the table the action started from
C5_Witness ==
    /\ ActionSucceeded
    /\ act.click \in {"apply_missing", "convert_datetime", "apply_scaling", "los_calc",
                      "age_groups"}
    /\ act.wrote # act.input
    /\ session.healthcare_data = act.input

LogOnNonPositive ==
    /\ page = "preprocessing"
    /\ act.click = "apply_outlier_treatment"
    /\ act.method = "Transform with log"
    /\ act.fired
    /\ \E i \in DOMAIN act.input[1].rows :
          act.input[1].rows[i][act.col].k = "num" /\ act.input[1].rows[i][act.col].v <= 0

\* C7: 'Transform with log' on a column holding a zero or a negative value
\* is rejected with the error message, and the column in the table the
\* action writes to the processed slot (and in the table the slot holds
\* after the re-render) is the column of before the action.
C7_LogRejected ==
    LogOnNonPositive =>
        /\ "Cannot apply log transformation to non-positive values" \in act.msgs
        /\ "Applied log transformation" \notin act.msgs
        /\ act.wrote # Absent
        /\ Column(act.wrote[1], act.col) = Column(act.input[1], act.col)
        /\ Column(session.healthcare_data_processed[1], act.col) = Column(act.input[1], act.col)

C7_Witness ==
    /\ LogOnNonPositive
    /\ "Cannot apply log transformation to non-positive values" \in act.msgs
    /\ \E i \in DOMAIN act.input[1].rows : act.input[1].rows[i][act.col] = Num(2 * Unit)

\* the column the Outlier Treatment panel of the last run was computed on
PanelColumn == Column(session.healthcare_data[1], last.treat[1].col)

\* C8: for the column of the Outlier Treatment panel, when IQR > 0:
\* lower_bound <= Q1 <= median <= Q3 <= upper_bound.
C8_BoundsOrder ==
    (page = "preprocessing" /\ last.treat # <<>> /\ ~last.treat[1].bounds.nan
                            /\ last.treat[1].bounds.IQRx4 > 0) =>
        /\ last.treat[1].bounds.lower8 <= 2 * last.treat[1].bounds.Q1x4
        /\ last.treat[1].bounds.Q1x4 <= Quantile4(PanelColumn, 2)
        /\ Quantile4(PanelColumn, 2) <= last.treat[1].bounds.Q3x4
        /\ 2 * last.treat[1].bounds.Q3x4 <= last.treat[1].bounds.upper8

\* a panel with IQR > 0 whose median lies strictly between Q1 and Q3
C8_Witness ==
    /\ page = "preprocessing" /\ last.treat # <<>> /\ ~last.treat[1].bounds.nan
    /\ last.treat[1].bounds.IQRx4 > 0
    /\ last.treat[1].bounds.Q1x4 < Quantile4(PanelColumn, 2)
    /\ Quantile4(PanelColumn, 2) < last.treat[1].bounds.Q3x4

\* 8 * (Q1 - 1.5 * IQR) and 8 * (Q3 + 1.5 * IQR) of a column with a value
LowerBound8(cells) == 2 * Quantile4(cells, 1) - 3 * (Quantile4(cells, 3) - Quantile4(cells, 1))
UpperBound8(cells) == 2 * Quantile4(cells, 3) + 3 * (Quantile4(cells, 3) - Quantile4(cells, 1))

\* both outlier panels of the last run are on display for the same column
BothPanels ==
    /\ page = "preprocessing"
    /\ last.detect # <<>> /\ last.treat # <<>>
    /\ last.detect[1].col = last.treat[1].col

\* C9: the mask of the Outlier Treatment panel marks exactly the rows whose
\* value is strictly below Q1 - 1.5 * IQR or strictly above Q3 + 1.5 * IQR,
\* and the Outlier Detection panel has the same bounds and lists the same rows.
C9_MaskAndPanelsAgree ==
    BothPanels =>
        /\ \A i \in DOMAIN PanelColumn :
              last.treat[1].mask[i] <=>
                  /\ PanelColumn[i].k = "num"
                  /\ \/ 8 * PanelColumn[i].v < LowerBound8(PanelColumn)
                     \/ 8 * PanelColumn[i].v > UpperBound8(PanelColumn)
        /\ last.detect[1].bounds = last.treat[1].bounds
        /\ Range(last.detect[1].outliers) = {i \in DOMAIN PanelColumn : last.treat[1].mask[i]}
        /\ Len(last.detect[1].outliers) = last.treat[1].outlier_count

\* both panels on a column with a flagged value and a value that is not flagged
C9_Witness ==
    /\ BothPanels
    /\ last.treat[1].outlier_count > 0
    /\ last.detect[1].outliers # <<>>
    /\ \E i \in DOMAIN PanelColumn : PanelColumn[i].k = "num" /\ ~last.treat[1].mask[i]

\* the uploaded table holds the example column, and the page has run
OnExample ==
    /\ page = "preprocessing"
    /\ last.treat # <<>>
    /\ PanelColumn = ExampleColumn

\* 'Cap outliers' was applied to the example column
CappedExample ==
    /\ OnExample
    /\ act.click = "apply_outlier_treatment"
    /\ act.method = "Cap outliers (Winsorization)"
    /\ act.fired

\* C10: for the column [10, 200, 30, 32, 31]: Q1 = 30, Q3 = 32, IQR = 2, the
\* bounds are 27 and 35, exactly 10 and 200 are flagged, and 'Cap outliers'
\* gives [27, 35, 30, 32, 31].
C10_Example ==
    /\ OnExample =>
          /\ last.treat[1].bounds.Q1x4 = 4 * 30 * Unit
          /\ last.treat[1].bounds.Q3x4 = 4 * 32 * Unit
          /\ last.treat[1].bounds.IQRx4 = 4 * 2 * Unit
          /\ last.treat[1].bounds.lower8 = 8 * 27 * Unit
          /\ last.treat[1].bounds.upper8 = 8 * 35 * Unit
          /\ last.treat[1].mask = <<TRUE, TRUE, FALSE, FALSE, FALSE>>
          /\ last.detect[1].outliers = <<1, 2>>
    /\ CappedExample =>
          Column(act.wrote[1], act.col) =
              <<Num(27 * Unit), Num(35 * Unit), Num(30 * Unit), Num(32 * Unit), Num(31 * Unit)>>

C10_Witness == CappedExample /\ act.wrote # Absent

\* 'Cap outliers (Winsorization)' was applied to a column and stored its table
CapApplied ==
    /\ page = "preprocessing"
    /\ act.click = "apply_outlier_treatment"
    /\ act.method = "Cap outliers (Winsorization)"
    /\ act.fired
    /\ act.wrote # Absent

\* the column 'Cap outliers' was applied to, before and after
ColumnBefore == Column(act.input[1], act.col)
ColumnAfter == Column(act.wrote[1], act.col)

\* row i of the column held a value strictly below / above the bounds
WasBelow(i) == ColumnBefore[i].k = "num" /\ 8 * ColumnBefore[i].v < LowerBound8(ColumnBefore)
WasAbove(i) == ColumnBefore[i].k = "num" /\ 8 * ColumnBefore[i].v > UpperBound8(ColumnBefore)

\* C11 as the specification states it: after 'Cap outliers' the minimum of
\* the column equals lower_bound and its maximum equals upper_bound.
C11_CapMinMaxAreBounds ==
    CapApplied =>
        /\ 8 * SeqMin(Values(ColumnAfter)) = LowerBound8(ColumnBefore)
        /\ 8 * SeqMax(Values(ColumnAfter)) = UpperBound8(ColumnBefore)

\* C11: after 'Cap outliers' every value of the column lies within the
\* bounds: lower_bound <= min and max <= upper_bound; the minimum equals
\* lower_bound when a value was below it and the maximum equals upper_bound
\* when a value was above it.
C11_CapWithinBounds ==
    CapApplied =>
        /\ LowerBound8(ColumnBefore) <= 8 * SeqMin(Values(ColumnAfter))
        /\ 8 * SeqMax(Values(ColumnAfter)) <= UpperBound8(ColumnBefore)
        /\ (\E i \in DOMAIN ColumnBefore : WasBelow(i))
              => 8 * SeqMin(Values(ColumnAfter)) = LowerBound8(ColumnBefore)
        /\ (\E i \in DOMAIN ColumnBefore : WasAbove(i))
              => 8 * SeqMax(Values(ColumnAfter)) = UpperBound8(ColumnBefore)

\* 'Cap outliers' on a column whose outliers all lie above the upper bound:
\* its maximum is the upper bound and its minimum is above the lower bound
C11_Witness ==
    /\ CapApplied
    /\ \E i \in DOMAIN ColumnBefore : WasAbove(i)
    /\ \A i \in DOMAIN ColumnBefore : ~WasBelow(i)
    /\ 8 * SeqMax(Values(ColumnAfter)) = UpperBound8(ColumnBefore)
    /\ 8 * SeqMin(Values(ColumnAfter)) > LowerBound8(ColumnBefore)

\* C12: 'Cap outliers' keeps the columns, the number and the order of the
\* rows and every cell of the other columns; in the selected column a value
\* below the lower bound becomes the lower bound, a value above the upper
\* bound becomes the upper bound, and every other cell keeps its value.
C12_CapChangesOnlyFlagged ==
    CapApplied =>
        /\ act.wrote[1].columns = act.input[1].columns
        /\ Len(act.wrote[1].rows) = Len(act.input[1].rows)
        /\ \A i \in DOMAIN act.input[1].rows :
              /\ \A j \in DOMAIN act.input[1].columns :
                    j # act.col => /\ act.wrote[1].rows[i][j] = act.input[1].rows[i][j]
                                   /\ act.wrote[1].dtype[j] = act.input[1].dtype[j]
              /\ ColumnAfter[i] =
                    IF WasBelow(i) THEN Num(LowerBound8(ColumnBefore) \div 8)
                    ELSE IF WasAbove(i) THEN Num(UpperBound8(ColumnBefore) \div 8)
                    ELSE ColumnBefore[i]

\* 'Cap outliers' on a table with other columns: a flagged value was moved
\* to a bound and a value that was not flagged stands beside it
C12_Witness ==
    /\ CapApplied
    /\ Len(act.input[1].columns) > 1
    /\ \E i \in DOMAIN ColumnBefore :
          (WasBelow(i) \/ WasAbove(i)) /\ ColumnAfter[i] # ColumnBefore[i]
    /\ \E i \in DOMAIN ColumnBefore :
          ColumnBefore[i].k = "num" /\ ~WasBelow(i) /\ ~WasAbove(i)

\* C13: 'Remove Duplicate Records' stores a table whose row count is the row
\* count of the working table minus the duplicate count the page displayed
\* on the render before the click (the count the click's own render computes
\* is the same).
C13_RemovesDetectedDuplicates ==
    [][(page' = "preprocessing" /\ act'.click = "remove_duplicates" /\ act'.fired) =>
          /\ last.duplicates # <<>>
          /\ act'.duplicates = last.duplicates
          /\ act'.wrote # Absent
          /\ Len(act'.wrote[1].rows) = Len(act'.input[1].rows) - last.duplicates[1]]_vars

\* duplicates were removed from a table that held a record three times and
\* a record once
C13_Witness ==
    /\ page = "preprocessing" /\ act.click = "remove_duplicates" /\ act.fired
    /\ act.duplicates = <<2>>
    /\ Len(act.input[1].rows) = 4
    /\ Len(act.wrote[1].rows) = 2

\* the visualization page has run on a table
VizShown == page = "visualization" /\ last.viz # <<>> /\ last.status # "stopped"

\* the table the page worked on, and its columns of conditions and results
VizTable == VizSource(session)
ConditionCells == Field(VizTable, NormalizeName(h_Medical_Condition))
ResultCells == Field(VizTable, NormalizeName(h_Test_Results))

\* the number of rows of the group g, and of its rows with the result 'Abnormal'
RowsOfGroup(g) == Cardinality({i \in DOMAIN ConditionCells : ConditionCells[i] = g})
AbnormalOfGroup(g) ==
    Cardinality({i \in DOMAIN ConditionCells : ConditionCells[i] = g /\ ResultCells[i] = Abnormal})

RankedDescending(entries) ==
    \A p, q \in DOMAIN entries :
        (p < q /\ entries[p].size > 0 /\ entries[q].size > 0)
            => ~RateGreater(entries[q].rate, entries[p].rate)

\* the number of rows of age group n, and of its rows with the result 'Abnormal'
RowsOfAgeGroup(n) ==
    Cardinality({i \in DOMAIN ResultCells : AgeGroupOf(Field(VizTable, t_age)[i]) = n})
AbnormalOfAgeGroup(n) ==
    Cardinality({i \in DOMAIN ResultCells :
                    AgeGroupOf(Field(VizTable, t_age)[i]) = n /\ ResultCells[i] = Abnormal})

AbsentField(names) == \A n \in DOMAIN names : ~HasCol(VizTable, names[n])

\* C17: when age, medical condition, billing amount or test results is
\* absent from the table, its key metric shows 'N/A', no step of the run
\* reads the field, and the analysis report holds 0 (average age, abnormal
\* rate) or 'N/A' (most common condition) for it.
C17_AbsentFieldsAreNotRead ==
    VizShown =>
        /\ AbsentField(<<t_age>>) =>
              /\ last.viz[1].metrics.avg_age = NA
              /\ "age" \notin last.viz[1].reads
              /\ last.viz[1].report # <<>> => last.viz[1].report[1].avg_age = Num(0)
        /\ AbsentField(condition_names) =>
              /\ last.viz[1].metrics.conditions = NA
              /\ "condition" \notin last.viz[1].reads
              /\ last.viz[1].report # <<>> => last.viz[1].report[1].top_condition = NA
        /\ AbsentField(billing_names) =>
              /\ last.viz[1].metrics.avg_billing = NA
              /\ "billing" \notin last.viz[1].reads
        /\ AbsentField(target_names) =>
              /\ last.viz[1].metrics.abnormal = NA
              /\ "target" \notin last.viz[1].reads
              /\ last.viz[1].report # <<>> => last.viz[1].report[1].abnormal_rate = ZeroRate
        /\ (AbsentField(<<t_age>>) \/ AbsentField(condition_names) \/ AbsentField(billing_names)
               \/ AbsentField(target_names))
              => \/ last.status = "done"
                 \/ (~AbsentField(condition_names) /\ NUnique(ConditionCells) = 0)

\* the report was generated on a table without the medical condition: the
\* page ran to its end, read the test results and left the condition alone
C17_Witness ==
    /\ VizShown
    /\ last.status = "done"
    /\ last.viz[1].report # <<>>
    /\ AbsentField(condition_names)
    /\ ~AbsentField(target_names)
    /\ last.viz[1].report[1].top_condition = NA
    /\ last.viz[1].metrics.conditions = NA
    /\ "target" \in last.viz[1].reads

\* the name a column is expected to have after the upload: every character
\* lower-cased, with spaces and hyphens turned into underscores
ExpectedName(n) ==
    [i \in DOMAIN n |-> IF n[i] \in {" ", "-"} THEN "_" ELSE LowerChar(n[i])]

\* a main-page run has just loaded a file
UploadSucceeded ==
    /\ page = "main"
    /\ "Dataset loaded successfully" \in last.msgs
    /\ last.upload # <<>>

\* the names of the mapping that the stored table has
MappedNames ==
    {j \in DOMAIN session.healthcare_data[1].columns :
        \E n \in DOMAIN column_mapping :
            column_mapping[n][1] = session.healthcare_data[1].columns[j]}

\* C16: after a successful upload the stored table has, column by column, the
\* uploaded name lower-cased with each space and each hyphen replaced by an
\* underscore; normalising a stored name again changes nothing, and the column
\* mapping renames no column (the stored names are the normalised names, and
\* applying the mapping to the stored table changes nothing)
C16_NamesNormalized ==
    UploadSucceeded =>
        /\ Present(session.healthcare_data)
        /\ DOMAIN session.healthcare_data[1].columns = DOMAIN last.upload[1]
        /\ \A j \in DOMAIN last.upload[1] :
               /\ session.healthcare_data[1].columns[j] = ExpectedName(last.upload[1][j])
               /\ session.healthcare_data[1].columns[j] = NormalizeName(last.upload[1][j])
               /\ NormalizeName(session.healthcare_data[1].columns[j])
                      = session.healthcare_data[1].columns[j]
        /\ ApplyColumnMapping(session.healthcare_data[1]) = session.healthcare_data[1]

\* a file was loaded whose names have an upper-case letter, a hyphen and a
\* space between them, and whose normalised names are names of the mapping
C16_Witness ==
    /\ UploadSucceeded
    /\ last.upload[1] = <<h_Test_Results_hyphen, h_Blood_Type>>
    /\ MappedNames = {1, 2}
    /\ session.healthcare_data[1].columns[1] # last.upload[1][1]

\* the buttons of the page that transform the table
TransformClicks ==
    {"apply_missing", "remove_duplicates", "convert_datetime", "apply_outlier_treatment",
     "date_features", "apply_encoding", "apply_scaling", "los_calc", "age_groups"}

\* C18: in every render of the Data Preprocessing page a user interaction
\* triggers, the processed table is written by an action exactly when the
\* render ends in a rerun; the action that wrote is the one clicked button, it
\* worked on the copy of the uploaded table, the processed slot at the end of
\* the render holds what the action wrote, and the render shows the success
\* message of at most one action
C18_OneActionPerRender ==
    page = "preprocessing" =>
        /\ (act.wrote # Absent) <=> (act.ended = "rerun")
        /\ act.wrote # Absent =>
               /\ act.fired
               /\ act.click \in TransformClicks
               /\ act.stored = act.wrote
               /\ act.input # Absent
        /\ Cardinality(act.msgs \cap SuccessMessages) <= 1
        /\ act.ended \in {"rerun", "done", "stopped", "exception"}

\* a render in which 'Apply Encoding' wrote the processed table and reran
C18_Witness ==
    /\ page = "preprocessing"
    /\ act.click = "apply_encoding"
    /\ act.wrote # Absent
    /\ act.ended = "rerun"
    /\ act.wrote # act.input

\* the uploaded table exists whenever the processed table exists
UploadedWheneverProcessed(ss) ==
    Present(ss.healthcare_data_processed) => Present(ss.healthcare_data)

\* C19: before and after every step the uploaded table exists whenever the
\* processed table exists; a step changes the uploaded slot only when it is a
\* run of the main page that loaded a file, and a run of the Data
\* Preprocessing page that finds no uploaded table stops at the guard and
\* leaves both slots as they were
C19_UploadedWheneverProcessed ==
    [][/\ UploadedWheneverProcessed(session)
       /\ UploadedWheneverProcessed(session')
       /\ session'.healthcare_data # session.healthcare_data =>
              /\ page' = "main"
              /\ last'.upload # <<>>
              /\ "Dataset loaded successfully" \in last'.msgs
       /\ (page' = "preprocessing" /\ ~Present(session.healthcare_data)) =>
              /\ last'.status = "stopped"
              /\ act'.wrote = Absent
              /\ session' = session]_vars

\* both tables exist after a run of the Data Preprocessing page that
\* followed an upload
C19_Witness ==
    /\ page = "preprocessing"
    /\ last.status = "done"
    /\ Present(session.healthcare_data)
    /\ Present(session.healthcare_data_processed)

\* the Data Preprocessing page stopped at its guard in a session with no table
C19_StoppedAtGuard ==
    /\ page = "preprocessing"
    /\ last.status = "stopped"
    /\ session = EmptySession

\* the treatments that fill, and all the treatments of the claim
FillTreatments == {"Fill with mean", "Fill with median", "Fill with mode", "Fill with 'Unknown'"}

\* 'Apply treatment for <col>' was clicked with one of these treatments for a
\* column that had a missing and a non-missing value
TreatedMissing(treatments) ==
    /\ page = "preprocessing"
    /\ act.click = "apply_missing"
    /\ act.fired
    /\ act.input # Absent
    /\ act.method \in treatments
    /\ \E i \in DOMAIN act.input[1].rows : IsNull(act.input[1].rows[i][act.col])
    /\ \E i \in DOMAIN act.input[1].rows : ~IsNull(act.input[1].rows[i][act.col])

\* the rows of table t whose cell in column j is not missing, in order
RowsWithValue(t, j) == SelectSeq(t.rows, LAMBDA row : ~IsNull(row[j]))

\* C20: a fill treatment or 'Drop rows' applied to a column with a missing and
\* a non-missing value writes a table in which the column has no missing
\* value; a fill keeps the number of rows and every cell that was not
\* missing, and 'Drop rows' leaves exactly the rows in which the column was
\* not missing, in their order
C20_TreatmentLeavesNoMissing ==
    /\ TreatedMissing(FillTreatments \cup {"Drop rows"}) =>
           /\ act.wrote # Absent
           /\ act.wrote[1].columns = act.input[1].columns
           /\ \A i \in DOMAIN act.wrote[1].rows : ~IsNull(act.wrote[1].rows[i][act.col])
    /\ TreatedMissing(FillTreatments) =>
           /\ DOMAIN act.wrote[1].rows = DOMAIN act.input[1].rows
           /\ \A i \in DOMAIN act.input[1].rows : \A j \in DOMAIN act.input[1].columns :
                  ~IsNull(act.input[1].rows[i][j]) =>
                      act.wrote[1].rows[i][j] = act.input[1].rows[i][j]
    /\ TreatedMissing({"Drop rows"}) =>
           act.wrote[1].rows = RowsWithValue(act.input[1], act.col)

\* 'Fill with Unknown' was applied to a text column with two missing cells
\* and a value
C20_Witness ==
    /\ TreatedMissing({"Fill with 'Unknown'"})
    /\ act.wrote # Absent
    /\ Cardinality({i \in DOMAIN act.input[1].rows : IsNull(act.input[1].rows[i][act.col])}) = 2
    /\ act.wrote # act.input

\* 'Drop rows' was applied to the numeric column and removed a row
C20_DropWitness ==
    /\ TreatedMissing({"Drop rows"})
    /\ act.input[1].dtype[act.col] = "float64"
    /\ Len(act.wrote[1].rows) < Len(act.input[1].rows)

\* 'Remove outliers' was applied to a column
RemoveApplied ==
    /\ page = "preprocessing"
    /\ act.click = "apply_outlier_treatment"
    /\ act.method = "Remove outliers"
    /\ act.fired
    /\ act.wrote # Absent

\* the rows of the table the action worked on that the mask did not flag
RowsNotFlagged ==
    SelectSeq(act.input[1].rows,
              LAMBDA row : ~(/\ row[act.col].k = "num"
                             /\ \/ 8 * row[act.col].v < LowerBound8(ColumnBefore)
                                \/ 8 * row[act.col].v > UpperBound8(ColumnBefore)))

\* C21: 'Remove outliers' removes exactly the rows the outlier mask flags:
\* the stored table has the displayed outlier count fewer rows, its rows are
\* the rows that were not flagged, unchanged and in order (rows with a
\* missing value stay), and every remaining value of the column lies within
\* the bounds computed before the removal
C21_RemoveExactlyFlagged ==
    RemoveApplied =>
        /\ act.treat # <<>>
        /\ act.treat[1].col = act.col
        /\ act.treat[1].bounds.lower8 = LowerBound8(ColumnBefore)
        /\ act.treat[1].bounds.upper8 = UpperBound8(ColumnBefore)
        /\ act.wrote[1].columns = act.input[1].columns
        /\ Len(act.wrote[1].rows) = Len(act.input[1].rows) - act.treat[1].outlier_count
        /\ act.wrote[1].rows = RowsNotFlagged
        /\ \A i \in DOMAIN ColumnAfter :
               ColumnAfter[i].k = "num" =>
                   /\ LowerBound8(ColumnBefore) <= 8 * ColumnAfter[i].v
                   /\ 8 * ColumnAfter[i].v <= UpperBound8(ColumnBefore)

\* outliers were removed from a column that also has a missing value: the
\* row with the missing value is still there
C21_Witness ==
    /\ RemoveApplied
    /\ Len(act.wrote[1].rows) < Len(act.input[1].rows)
    /\ \E i \in DOMAIN ColumnAfter : IsNull(ColumnAfter[i])
    /\ \E i \in DOMAIN ColumnAfter : ColumnAfter[i].k = "num"

\* 'Remove Duplicate Records' stored a table
DuplicatesRemoved ==
    /\ page = "preprocessing"
    /\ act.click = "remove_duplicates"
    /\ act.fired
    /\ act.wrote # Absent

\* the first occurrence of every distinct element of the first n elements
\* of rows, in order
RECURSIVE FirstOccurrences(_, _)
FirstOccurrences(rows, n) ==
    IF n = 0 THEN <<>>
    ELSE IF \E h \in 1..(n - 1) : rows[h] = rows[n]
    THEN FirstOccurrences(rows, n - 1)
    ELSE Append(FirstOccurrences(rows, n - 1), rows[n])

\* C22: the table 'Remove Duplicate Records' stores has no two identical
\* rows; its rows are the first occurrences of the distinct rows of the table
\* it worked on, in the original order; and removing duplicates from it again
\* changes nothing (it has no duplicate for the page to report)
C22_DeduplicationIdempotent ==
    DuplicatesRemoved =>
        /\ \A i, h \in DOMAIN act.wrote[1].rows :
               i # h => act.wrote[1].rows[i] # act.wrote[1].rows[h]
        /\ act.wrote[1].rows = FirstOccurrences(act.input[1].rows, Len(act.input[1].rows))
        /\ act.wrote[1].columns = act.input[1].columns
        /\ drop_duplicates(act.wrote[1]) = act.wrote[1]
        /\ CountTrue(Duplicated(act.wrote[1])) = 0

\* duplicates were removed from a table with a repeated record followed by a
\* record that differs from it: two rows are left
C22_Witness ==
    /\ DuplicatesRemoved
    /\ Len(act.input[1].rows) >= 3
    /\ Len(act.wrote[1].rows) = 2
    /\ act.input[1].rows[1] = act.input[1].rows[2]

\* the main page has just loaded a file that differs from the table it
\* replaced, while a processed table from before the upload exists
NewFileOverProcessed ==
    /\ page = "main"
    /\ "Dataset loaded successfully" \in last.msgs
    /\ last.upload # <<>>
    /\ last.replaced
    /\ Present(session.healthcare_data_processed)

NothingComputed(v) ==
    /\ v.table = Absent
    /\ v.frame = <<>>
    /\ v.age_groups = [conditions |-> <<>>, target |-> <<>>, risk |-> <<>>]
    /\ v.metrics = [patients |-> NA, avg_age |-> NA, conditions |-> NA, avg_billing |-> NA,
                    abnormal |-> NA]
    /\ v.reads = {}
    /\ v.risk_analysis = <<>>
    /\ v.age_risk = <<>>
    /\ v.insights = {}
    /\ v.report = <<>>

\* C24: a run of the Data Visualization page works on a copy of the
\* processed table when the session has one, else on a copy of the uploaded
\* table; with neither it shows the warning and stops with no metric, no
\* statistic and no report computed
C24_VisualizationSource ==
    [][page' = "visualization" =>
          /\ last'.viz # <<>>
          /\ IF Present(session.healthcare_data_processed)
             THEN /\ last'.viz[1].source = "healthcare_data_processed"
                  /\ last'.viz[1].table = session.healthcare_data_processed
                  /\ last'.viz[1].metrics.patients
                        = <<Len(session.healthcare_data_processed[1].rows)>>
             ELSE IF Present(session.healthcare_data)
             THEN /\ last'.viz[1].source = "healthcare_data"
                  /\ last'.viz[1].table = session.healthcare_data
                  /\ last'.viz[1].metrics.patients = <<Len(session.healthcare_data[1].rows)>>
             ELSE /\ last'.status = "stopped"
                  /\ last'.msgs = {"Please upload and process the healthcare dataset first"}
                  /\ NothingComputed(last'.viz[1])]_vars

\* the page worked on the processed table in a session whose uploaded table
\* is a different one
C24_Witness ==
    /\ page = "visualization"
    /\ last.viz # <<>>
    /\ last.viz[1].source = "healthcare_data_processed"
    /\ last.viz[1].table = session.healthcare_data_processed
    /\ Present(session.healthcare_data)
    /\ session.healthcare_data # session.healthcare_data_processed

\* the page worked on the uploaded table in a session with no processed table
C24_UploadedShown ==
    /\ page = "visualization"
    /\ last.viz # <<>>
    /\ last.viz[1].source = "healthcare_data"
    /\ ~Present(session.healthcare_data_processed)

\* the page stopped at the warning in a session with no table
C24_StoppedAtWarning ==
    /\ page = "visualization"
    /\ last.status = "stopped"
    /\ session = EmptySession

\* C25: no run of the Data Visualization page, whether it renders the page
\* or generates the report, changes the session store: the uploaded and the
\* processed table are after the run what they were before it, whatever the
\* run did to its local frame
C25_VisualizationKeepsSession ==
    [][page' = "visualization" =>
          /\ session' = session
          /\ session'.healthcare_data = session.healthcare_data
          /\ session'.healthcare_data_processed = session.healthcare_data_processed]_vars

\* a run converted a date column and added Month, Year and Weekday to its
\* local frame, and the table it had loaded is still the one of the session,
\* without these columns and with the dates as texts
C25_Witness ==
    /\ page = "visualization"
    /\ last.status = "done"
    /\ last.viz # <<>>
    /\ last.viz[1].table # Absent
    /\ HasCol(last.viz[1].frame, <<"M", "o", "n", "t", "h">>)
    /\ HasCol(last.viz[1].frame, <<"W", "e", "e", "k", "d", "a", "y">>)
    /\ \E j \in DOMAIN last.viz[1].table[1].columns :
           /\ last.viz[1].frame.dtype[j] = "datetime64[ns]"
           /\ last.viz[1].table[1].dtype[j] = "object"
    /\ ~HasCol(last.viz[1].table[1], <<"M", "o", "n", "t", "h">>)
    /\ last.viz[1].table = session.healthcare_data_processed

\* the workflow progress the main page shows for the session ss: 4 of 7
\* steps and 'Data Preprocessing' next without a processed table, 6 of 7 and
\* 'Predictive Modeling' next with one
ProgressAsStated(ss) ==
    <<[completed_steps |-> IF Present(ss.healthcare_data_processed) THEN 6 ELSE 4,
       steps |-> 7,
       next_step |-> IF Present(ss.healthcare_data_processed)
                     THEN "Predictive Modeling" ELSE "Data Preprocessing"]>>

\* the counts of C26: whenever the main page has run in a session with an
\* uploaded table, the progress it shows is the stated one (and so never
\* 'All workflow steps completed')
C26_ProgressCounts ==
    (page = "main" /\ Present(session.healthcare_data)) =>
        /\ last.progress = ProgressAsStated(session)
        /\ last.progress[1].next_step # "All workflow steps completed"

\* C26 as the specification states it: the counts above, and a render of the
\* Data Preprocessing page with no button clicked, in a session with an
\* uploaded table, leaves a session for which the main page counts 6 of 7.
C26_WorkflowProgress ==
    [][/\ (page' = "main" /\ Present(session'.healthcare_data)) =>
              /\ last'.progress = ProgressAsStated(session')
              /\ last'.progress[1].next_step # "All workflow steps completed"
       /\ (page' = "preprocessing" /\ act'.click = "none" /\ Present(session.healthcare_data)) =>
              WorkflowProgress(session')[1].completed_steps = 6]_vars

\* the main page showed 6 of 7 steps
C26_SixOfSeven ==
    /\ page = "main"
    /\ last.progress # <<>>
    /\ last.progress[1].completed_steps = 6

\* the three age-group charts of the Data Visualization page were computed
AgeChartsShown ==
    /\ VizShown
    /\ last.viz[1].age_groups.conditions # <<>>
    /\ last.viz[1].age_groups.target # <<>>
    /\ last.viz[1].age_groups.risk # <<>>

\* the ages of the table the page worked on
AgeCellsShown == Field(last.viz[1].table[1], t_age)

\* the categories of 'Create Age Groups', in the order of the labels of the
\* Data Visualization page
age_categories ==
    <<Str(<<"C", "h", "i", "l", "d">>),
      Str(<<"Y", "o", "u", "n", "g", " ", "A", "d", "u", "l", "t">>),
      Str(<<"M", "i", "d", "d", "l", "e", " ", "A", "g", "e">>),
      Str(<<"S", "e", "n", "i", "o", "r">>),
      Str(<<"E", "l", "d", "e", "r", "l", "y">>)>>

\* what the label at position n says of an age of v units
LabelSays(n, v) ==
    CASE n = 1 -> v < 18 * Unit
      [] n = 2 -> 18 * Unit <= v /\ v < 35 * Unit
      [] n = 3 -> 35 * Unit <= v /\ v < 55 * Unit
      [] n = 4 -> 55 * Unit <= v /\ v < 75 * Unit
      [] n = 5 -> 75 * Unit <= v
      [] OTHER -> FALSE

\* the Age_Group column g agrees with 'Create Age Groups' and with its labels
\* on every row with an age
GroupsCorrespond(g) ==
    \A i \in DOMAIN AgeCellsShown :
        AgeCellsShown[i].k = "num" =>
            /\ g[i] \in DOMAIN age_categories
            /\ age_categories[g[i]] = categorize_age(AgeCellsShown[i])
            /\ LabelSays(g[i], AgeCellsShown[i].v)

C27_AgreeInsideBin ==
    /\ AgeChartsShown
    /\ Len(AgeCellsShown) = 1
    /\ AgeCellsShown[1] = Num(50 * Unit)
    /\ last.viz[1].age_groups.risk[1][1] = 3
    /\ categorize_age(AgeCellsShown[1]) = age_categories[3]

\* the number of rows of the Age_Group column g that have a label
RowsWithGroup(g) == Cardinality({i \in DOMAIN g : g[i] # 0})

BoundsBefore == act.treat[1].bounds
BoundsAfter == IqrBounds(ColumnAfter)

\* C29 as the specification states it: after 'Cap outliers' the quartiles and
\* bounds recomputed on the capped column flag no row, and capping the stored
\* table with them changes nothing.
C29_CapIdempotent ==
    CapApplied =>
        /\ CountTrue(outliers_mask(ColumnAfter, BoundsAfter)) = 0
        /\ CapOutliers(act.wrote[1], act.col, BoundsAfter) = act.wrote[1]

\* C29: after 'Cap outliers' the bounds computed before the capping flag no
\* row of the capped column, and capping the stored table with these bounds
\* again changes nothing; the bounds recomputed on the capped column are not
\* wider than the earlier ones (they can be narrower and flag capped values).
C29_CapIdempotentForSameBounds ==
    CapApplied =>
        /\ act.treat # <<>>
        /\ BoundsBefore.lower8 = LowerBound8(ColumnBefore)
        /\ BoundsBefore.upper8 = UpperBound8(ColumnBefore)
        /\ CountTrue(outliers_mask(ColumnAfter, BoundsBefore)) = 0
        /\ CapOutliers(act.wrote[1], act.col, BoundsBefore) = act.wrote[1]
        /\ BoundsBefore.lower8 <= BoundsAfter.lower8
        /\ BoundsAfter.upper8 <= BoundsBefore.upper8

\* a capped column in which the recomputed bounds flag a value that the
\* bounds computed before the capping do not flag
C29_Witness ==
    /\ CapApplied
    /\ ColumnAfter # ColumnBefore
    /\ CountTrue(outliers_mask(ColumnAfter, BoundsBefore)) = 0
    /\ CountTrue(outliers_mask(ColumnAfter, BoundsAfter)) > 0

====
